---- MODULE Spec2Model ----
(***************************************************************************)
(* A model of the pyrust-bt backtest engine (rust/engine_rust/src/lib.rs): *)
(* BacktestEngine::run (single feed) and BacktestEngine::run_multi (joint  *)
(* timeline), with the order parser, the matcher and the position ledger.  *)
(*                                                                         *)
(* Conventions.                                                            *)
(*  - An f64 is modelled as an exact rational <<n, d>> with d > 0 in       *)
(*    lowest terms; rounding of f64 arithmetic is not modelled.            *)
(*  - An Option<T> is a sequence: <<>> is None and <<x>> is Some(x).       *)
(*  - A Python/Rust string that the code indexes by byte is a sequence of  *)
(*    one-character strings: "BUY" is <<"B","U","Y">>.                     *)
(*  - Sequences are 1-based, so bar index i of the code is bars_data[i+1]. *)
(***************************************************************************)
EXTENDS Integers, Sequences, FiniteSets, TLC

(***************************************************************************)
(* Bounds of the model.                                                    *)
(***************************************************************************)
\* the longest bar list handed to run()
MaxBars == 2
\* cfg.batch_size ranges over 0..MaxBatch
MaxBatch == 3
\* the longest bar list of one feed handed to run_multi()
MaxFeedLen == 2
\* run_multi(): the strategy acts (returns something other than None) only
\* in the first MaxActs ticks
MaxActs == 2

(***************************************************************************)
(* Exact arithmetic standing for f64.                                      *)
(***************************************************************************)
Abs(n) == IF n < 0 THEN -n ELSE n

RECURSIVE Gcd(_, _)
Gcd(a, b) == IF b = 0 THEN a ELSE Gcd(b, a % b)

Norm(n, d) ==
    LET g == Gcd(Abs(n), Abs(d))
        s == IF d < 0 THEN -1 ELSE 1
    IN  IF g = 0 THEN <<0, 1>> ELSE <<(s * n) \div g, (s * d) \div g>>

R(n) == <<n, 1>>
Q(n, d) == Norm(n, d)
RAdd(a, b) == Norm(a[1] * b[2] + b[1] * a[2], a[2] * b[2])
RSub(a, b) == Norm(a[1] * b[2] - b[1] * a[2], a[2] * b[2])
RMul(a, b) == Norm(a[1] * b[1], a[2] * b[2])
RDiv(a, b) == Norm(a[1] * b[2], a[2] * b[1])
RLt(a, b) == a[1] * b[2] < b[1] * a[2]
RLe(a, b) == a[1] * b[2] <= b[1] * a[2]
RAbs(a) == <<Abs(a[1]), a[2]>>
RMin(a, b) == IF RLe(a, b) THEN a ELSE b
\* usize::min
Min(a, b) == IF a <= b THEN a ELSE b

\* String's `<`: byte-wise lexicographic order
RECURSIVE StrLt(_, _)
StrLt(a, b) ==
    IF Len(b) = 0 THEN FALSE
    ELSE IF Len(a) = 0 THEN TRUE
    ELSE IF a[1] # b[1] THEN a[1] < b[1]
    ELSE StrLt(Tail(a), Tail(b))

\* HashMap: a function on the set of its keys
EmptyMap == [k \in {} |-> 0]
HasKey(m, k) == k \in DOMAIN m
MapPut(m, k, v) == [x \in (DOMAIN m) \cup {k} |-> IF x = k THEN v ELSE m[x]]
MapGetOr(m, k, dflt) == IF k \in DOMAIN m THEN m[k] ELSE dflt

\* f64::EPSILON (2^-52).  Every non-zero magnitude the bounded inputs can
\* produce is far above it, so the stand-in below decides each comparison
\* of the code exactly as 2^-52 does.
EPSILON == <<1, 1000000>>

(***************************************************************************)
(* Options and strings.                                                    *)
(***************************************************************************)
None == <<>>
Some(x) == <<x>>
IsSome(o) == o # <<>>
Unwrap(o) == o[1]
UnwrapOr(o, dflt) == IF o = <<>> THEN dflt ELSE o[1]

S_BUY == <<"B", "U", "Y">>
S_SELL == <<"S", "E", "L", "L">>
S_buy == <<"b", "u", "y">>
S_empty == <<>>
S_market == <<"m", "a", "r", "k", "e", "t">>
S_limit == <<"l", "i", "m", "i", "t">>

(***************************************************************************)
(* Values a strategy can return (the Python objects the parser inspects).  *)
(* A dict carries each key the parser reads as an Option; a key holding a  *)
(* value of the wrong type reads as absent, exactly as .extract().ok()     *)
(* makes it.                                                               *)
(***************************************************************************)
PyNone == [kind |-> "none"]
PyOther == [kind |-> "other"]
PyStr(s) == [kind |-> "str", s |-> s]
PyDict(action, type, size, price, symbol) ==
    [kind |-> "dict", action |-> action, type |-> type, size |-> size,
     price |-> price, symbol |-> symbol]
PyList(items) == [kind |-> "list", items |-> items]

\* Order::side, from the first byte of the action string
SideOfAction(act) == IF act[1] = "B" THEN "Buy" ELSE "Sell"

\* struct Order
MkOrder(id, side, otype, size, limit_price, symbol) ==
    [id |-> id, side |-> side, otype |-> otype, size |-> size,
     limit_price |-> limit_price, status |-> "submitted", symbol |-> symbol]

\* a variant of NextOrderSeq that does not advance the sequence
NextOrderSeq_Stuck(seq) == seq

\* *order_seq += 1 (lines 963 and 987)
NextOrderSeq(seq) == seq + 1

\* fn parse_action_fast: the outcome is a panic (index 0 of an empty string),
\* or Ok(order) with the advanced order_seq.
parse_action_fast(action_obj, order_seq_in, last_price, default_symbol) ==
    IF action_obj.kind = "str"
    THEN IF Len(action_obj.s) = 0
         THEN [panic |-> TRUE, order |-> None, order_seq |-> order_seq_in]
         ELSE [panic |-> FALSE,
               order |-> Some(MkOrder(order_seq_in, SideOfAction(action_obj.s),
                                      "Market", R(1), None, default_symbol)),
               order_seq |-> NextOrderSeq(order_seq_in)]
    ELSE IF action_obj.kind = "dict"
    THEN LET act == UnwrapOr(action_obj.action, S_empty)
             otype_str == UnwrapOr(action_obj.type, S_market)
             otype == IF otype_str = S_limit THEN "Limit" ELSE "Market"
             size == UnwrapOr(action_obj.size, R(1))
             price == action_obj.price
             symbol == UnwrapOr(action_obj.symbol, default_symbol)
             limit_price == IF otype = "Limit"
                            THEN (IF IsSome(price) THEN price ELSE Some(last_price))
                            ELSE None
         IN  IF Len(act) = 0
             THEN [panic |-> FALSE, order |-> None, order_seq |-> order_seq_in]
             ELSE [panic |-> FALSE,
                   order |-> Some(MkOrder(order_seq_in, SideOfAction(act), otype,
                                          size, limit_price, symbol)),
                   order_seq |-> NextOrderSeq(order_seq_in)]
    ELSE [panic |-> FALSE, order |-> None, order_seq |-> order_seq_in]

\* a variant of try_match whose Sell arm compares like the Buy arm
try_match_SellLikeBuy(order, last_price) ==
    IF order.otype = "Market"
    THEN Some(<<last_price, order.size>>)
    ELSE LET lp == UnwrapOr(order.limit_price, last_price)
         IN  IF RLe(last_price, lp) THEN Some(<<lp, order.size>>) ELSE None

\* fn try_match: Some(<<fill_price, fill_size>>) or None
try_match(order, last_price) ==
    IF order.otype = "Market"
    THEN Some(<<last_price, order.size>>)
    ELSE LET lp == UnwrapOr(order.limit_price, last_price)
         IN  IF order.side = "Buy"
             THEN (IF RLe(last_price, lp) THEN Some(<<lp, order.size>>) ELSE None)
             ELSE (IF RLe(lp, last_price) THEN Some(<<lp, order.size>>) ELSE None)

\* PositionState::new
NewPositionState(cash) ==
    [position |-> R(0), avg_cost |-> R(0), cash |-> cash, realized_pnl |-> R(0)]

\* a variant of AvgCostAfterSell that keeps the average cost of a closed position
AvgCostAfterSell_Kept(new_pos, avg_cost) == avg_cost

\* if position.abs() < f64::EPSILON { avg_cost = 0.0 } (lines 1129 and 1490)
AvgCostAfterSell(new_pos, avg_cost) ==
    IF RLt(RAbs(new_pos), EPSILON) THEN R(0) ELSE avg_cost

\* a variant of ClosingSize taken after the position was already reduced
ClosingSize_AfterReduce(fill_size, position) ==
    RMin(fill_size, RSub(position, fill_size))

\* let closing = fill_size.min(position) (lines 1122 and 1486)
ClosingSize(fill_size, position) == RMin(fill_size, position)

\* fn update_position, Buy arm
update_position_buy(pos, exec_price, fill_size, commission) ==
    LET cost == RAdd(RMul(exec_price, fill_size), commission)
        new_pos == RAdd(pos.position, fill_size)
        avg == IF RLt(EPSILON, RAbs(new_pos))
               THEN (IF RLt(EPSILON, RAbs(pos.position))
                     THEN RDiv(RAdd(RMul(pos.avg_cost, pos.position),
                                    RMul(exec_price, fill_size)), new_pos)
                     ELSE exec_price)
               ELSE R(0)
    IN  [pos EXCEPT !.avg_cost = avg, !.position = new_pos,
                    !.cash = RSub(pos.cash, cost)]

\* fn update_position, Sell arm
update_position_sell(pos, exec_price, fill_size, commission) ==
    LET proceeds == RSub(RMul(exec_price, fill_size), commission)
        pnl == IF RLt(R(0), pos.position)
               THEN RAdd(pos.realized_pnl,
                         RMul(RSub(exec_price, pos.avg_cost),
                              ClosingSize(fill_size, pos.position)))
               ELSE pos.realized_pnl
        new_pos == RSub(pos.position, fill_size)
        avg == AvgCostAfterSell(new_pos, pos.avg_cost)
    IN  [pos EXCEPT !.realized_pnl = pnl, !.position = new_pos,
                    !.avg_cost = avg, !.cash = RAdd(pos.cash, proceeds)]

\* fn update_position
update_position(pos, order, exec_price, fill_size, commission) ==
    IF order.side = "Buy"
    THEN update_position_buy(pos, exec_price, fill_size, commission)
    ELSE update_position_sell(pos, exec_price, fill_size, commission)

\* a variant of ExecPrice that adds the slippage whatever the side
ExecPrice_SlipAdded(order, fill_price, slippage_bps) ==
    RMul(fill_price, RAdd(R(1), RDiv(slippage_bps, R(10000))))

\* the slippage and commission arithmetic run() and _run_multi_impl() share:
\* <<exec_price, commission>> of a fill
ExecPrice(order, fill_price, slippage_bps) ==
    LET slip == RDiv(slippage_bps, R(10000))
        sign == IF order.side = "Buy" THEN R(1) ELSE R(-1)
    IN  RMul(fill_price, RAdd(R(1), RMul(sign, slip)))

\* a variant of Commission charged on the price alone, whatever the size
Commission_PerUnit(exec_price, fill_size, commission_rate) ==
    RMul(exec_price, commission_rate)

\* let commission = exec_price * fill_size * self.cfg.commission_rate
\* (lines 789 and 1467)
Commission(exec_price, fill_size, commission_rate) ==
    RMul(RMul(exec_price, fill_size), commission_rate)

(***************************************************************************)
(* Inputs.                                                                 *)
(***************************************************************************)
SeqsUpTo(S, n) == UNION {[1..k -> S] : k \in 0..n}

\* struct BarData, the fields the loops read (open, high, low and volume are
\* only copied into the dict handed to the strategy)
MkBar(datetime, close, symbol) ==
    [datetime |-> datetime, close |-> close, symbol |-> symbol]

Closes == {R(1), R(2)}

\* A datetime string is the sequence of its digits; the code compares
\* datetimes as strings, byte by byte.
\* The bar lists handed to run(): datetimes "1", "2", ... and no symbol
RunBarsOf(closes) ==
    [k \in 1..Len(closes) |-> MkBar(Some(<<k>>), closes[k], None)]
RunBarLists == {RunBarsOf(cs) : cs \in SeqsUpTo(Closes, MaxBars)}

\* BacktestConfig: cash, commission_rate, slippage_bps, batch_size
\* <<commission_rate, slippage_bps>>: no costs, or 10% commission and 1000 bps
CostConfigs == {<<R(0), R(0)>>, <<Q(1, 10), R(1000)>>}
Configs ==
    {[cash |-> R(100), commission_rate |-> c[1], slippage_bps |-> c[2],
      batch_size |-> b] : c \in CostConfigs, b \in 0..MaxBatch}

\* What the strategy's decision method does when its body runs: it raises,
\* or it returns one of these objects.
Raise == [kind |-> "raise"]
Responses ==
    { Raise, PyNone, PyOther,
      PyList(<<PyStr(S_BUY)>>),
      PyStr(S_BUY), PyStr(S_SELL), PyStr(S_buy), PyStr(S_empty),
      PyDict(None, None, None, None, None),
      PyDict(Some(S_BUY), Some(S_market), Some(R(2)), None, None),
      PyDict(Some(S_SELL), None, Some(R(2)), None, None),
      PyDict(Some(S_BUY), Some(S_limit), None, Some(R(1)), None),
      PyDict(Some(S_SELL), Some(S_limit), None, Some(R(2)), None),
      PyDict(Some(S_BUY), Some(S_limit), None, None, None),
      PyDict(Some(S_SELL), Some(S_market), Some(R(-1)), None, None) }

\* The strategy object: the signature of its next method.  "bar_ctx" takes
\* (bar, ctx); "bar" takes (bar) only, so the two-argument call raises
\* TypeError before the body runs.
\* An active strategy may return any of the responses; a passive one always
\* returns None.
\* hooks gives, for each optional hook, what calling it does: "ok" (it
\* returns), "missing" (the object has no such method, so the call fails
\* with AttributeError) or "raise" (its body raises).
HookNames == {"on_start", "on_order", "on_trade", "on_stop"}
HookOutcomes == {"ok", "missing", "raise"}
HooksAll(outcome) == [h \in HookNames |-> outcome]
Strategies == [sig : {"bar_ctx", "bar"}, active : {TRUE}, hooks : {HooksAll("ok")}]

\* a variant of Discard in which the hook's failure propagates, as if the
\* call were followed by `?`
Discard_Propagated(outcome) == IF outcome = "ok" THEN None ELSE Some("HookError")

\* `let _ = strategy.call_method...(hook, ...)` (lines 726, 783, 801-802,
\* 808, 817, 1368, 1503, 1516): the call's Result is dropped, so whatever
\* the hook did, no error propagates from the statement.
Discard(outcome) == None

\* the first error of two statements in sequence
FirstErr(e1, e2) == IF IsSome(e1) THEN e1 ELSE e2

(***************************************************************************)
(* State.                                                                  *)
(***************************************************************************)
VARIABLES
    cfg,            \* BacktestEngine.cfg
    pc,             \* where the call is: idle; bar, stop (run); tick, mstop
                    \* (run_multi); done, error, panic
    mode,           \* the method called: none, run, run_multi
    strategy,       \* the strategy object passed in
    bars_data,      \* run(): the extracted bars
    n_bars,
    pos,            \* run(): PositionState
    order_seq,
    equity_curve,   \* sequence of <<datetime, equity>>
    trades,         \* sequence of trade records
    batch_size,     \* run(): cfg.batch_size.min(n_bars)
    chunk_start,
    chunk_end,
    i,
    calls,          \* the calls made on the strategy object, in order
    result,         \* the returned dict, None until the call returns
    error,          \* the error surfaced to the caller, None if none
    feed_ids,       \* run_multi(): the feeds' keys, in dict order
    feed_bars,      \* run_multi(): the feeds' extracted bars
    idxs,           \* run_multi(): cursor per feed (0-based count of bars consumed)
    last_snapshot,  \* run_multi(): Option<BarData> per feed
    cash,           \* run_multi(): portfolio cash
    realized_pnl,   \* run_multi()
    positions,      \* run_multi(): symbol -> <<position, avg_cost>>
    last_price_map, \* run_multi(): symbol -> close
    step,           \* run_multi(): ticks done
    slices,         \* run_multi(): per tick, its datetime, the update slice handed
                    \* to the strategy, the bar handed to the fallback next and
                    \* the action object obtained
    order_log,      \* history: the orders created, each with the bar index or
                    \* tick at which it was created
    fn_in,          \* a pure function under check: its arguments
    fn_out          \* ... and its result, None before it is applied

runVars == <<bars_data, n_bars, pos, batch_size, chunk_start, chunk_end, i>>
multiVars == <<feed_ids, feed_bars, idxs, last_snapshot, cash, realized_pnl,
               positions, last_price_map, step, slices>>
outVars == <<order_seq, equity_curve, trades, calls, result, error, order_log>>
fnVars == <<fn_in, fn_out>>
vars == <<cfg, pc, mode, strategy, runVars, multiVars, outVars, fnVars>>

Call(fn, ev, id) == [fn |-> fn, ev |-> ev, id |-> id]

\* a variant of ChunkEnd that runs every chunk to the end of the bar list
ChunkEnd_WholeList(cs, bs, n) == n

\* the outer loop's slice bound (line 739)
ChunkEnd(cs, bs, n) == Min(cs + bs, n)

\* the engine before any run: nothing but the configuration is set
EngineIdle ==
    /\ pc = "idle"
    /\ mode = "none"
    /\ strategy = [sig |-> "none", active |-> FALSE, hooks |-> HooksAll("ok")]
    /\ bars_data = <<>>
    /\ n_bars = 0
    /\ pos = NewPositionState(R(0))
    /\ order_seq = 0
    /\ equity_curve = <<>>
    /\ trades = <<>>
    /\ batch_size = 0
    /\ chunk_start = 0
    /\ chunk_end = 0
    /\ i = 0
    /\ calls = <<>>
    /\ result = None
    /\ error = None
    /\ feed_ids = <<>>
    /\ feed_bars = <<>>
    /\ idxs = <<>>
    /\ last_snapshot = <<>>
    /\ cash = R(0)
    /\ realized_pnl = R(0)
    /\ positions = EmptyMap
    /\ last_price_map = EmptyMap
    /\ step = 0
    /\ slices = <<>>
    /\ order_log = <<>>

\* BacktestEngine::new (lines 127-138 and the constructor): an engine with
\* its configuration
Init ==
    /\ cfg \in Configs
    /\ EngineIdle
    /\ fn_in = [fn |-> "none"]
    /\ fn_out = None

\* run(), lines 711-738: extract the bars, call on_start, set up the ledger
\* and enter the chunk loop.  step_by(0) panics.
\* run(), lines 711-740, called with the bar list bars and the strategy strat
RunEnterWith(bars, strat) ==
        LET bs == Min(cfg.batch_size, Len(bars))
            herr == Discard(strat.hooks["on_start"])
        IN
        /\ pc = "idle"
        /\ mode' = "run"
        /\ strategy' = strat
        /\ bars_data' = bars
        /\ n_bars' = Len(bars)
        /\ calls' = <<Call("on_start", "", 0)>>
        /\ pos' = NewPositionState(cfg.cash)
        /\ order_seq' = 1
        /\ equity_curve' = <<>>
        /\ trades' = <<>>
        /\ batch_size' = bs
        /\ chunk_start' = 0
        /\ chunk_end' = ChunkEnd(0, bs, Len(bars))
        /\ i' = 0
        /\ pc' = IF IsSome(herr) THEN "error" ELSE IF bs = 0 THEN "panic" ELSE "bar"
        /\ error' = herr
        /\ order_log' = <<>>
        /\ UNCHANGED <<cfg, result, multiVars, fnVars>>

Run_Enter ==
    /\ pc = "idle"
    /\ \E bars \in RunBarLists, strat \in Strategies : RunEnterWith(bars, strat)

\* run(), lines 766-769: next(bar, ctx), and next(bar) if that raised.  The
\* calls made, and either the object returned or the error that propagates.
CallNext(strat, response, idx) ==
    IF strat.sig = "bar_ctx"
    THEN IF response = Raise
         THEN [calls |-> <<Call("next", "bar_ctx", idx), Call("next", "bar", idx)>>,
               err |-> Some("TypeError"), obj |-> PyNone]
         ELSE [calls |-> <<Call("next", "bar_ctx", idx)>>,
               err |-> None, obj |-> response]
    ELSE IF response = Raise
         THEN [calls |-> <<Call("next", "bar_ctx", idx), Call("next", "bar", idx)>>,
               err |-> Some("StrategyError"), obj |-> PyNone]
         ELSE [calls |-> <<Call("next", "bar_ctx", idx), Call("next", "bar", idx)>>,
               err |-> None, obj |-> response]

SideStr(order) == IF order.side = "Buy" THEN "BUY" ELSE "SELL"

\* a record of the trades vector
MkTrade(order, exec_price, fill_size) ==
    [order_id |-> order.id, side |-> SideStr(order), price |-> exec_price,
     size |-> fill_size]

\* a variant of FillCallbacks that reports the order filled before the trade
FillCallbacks_FilledFirst(id) ==
    <<Call("on_order", "filled", id), Call("on_trade", "", id)>>

\* run(), lines 796-808: on_trade(trade_evt), then on_order(filled)
FillCallbacks(id) ==
    <<Call("on_trade", "", id), Call("on_order", "filled", id)>>

\* run(), lines 785-809: the order is matched at last_price and, if it
\* fills, applied: <<pos, trades, calls>> afterwards.
RunFill(order, last_price, pos0, trades0, calls0) ==
    LET m == try_match(order, last_price) IN
    IF IsSome(m)
    THEN LET fill_price == Unwrap(m)[1]
             fill_size == Unwrap(m)[2]
             exec_price == ExecPrice(order, fill_price, cfg.slippage_bps)
             commission == Commission(exec_price, fill_size, cfg.commission_rate)
         IN  [pos |-> update_position(pos0, order, exec_price, fill_size, commission),
              trades |-> Append(trades0, MkTrade(order, exec_price, fill_size)),
              calls |-> calls0 \o FillCallbacks(order.id)]
    ELSE [pos |-> pos0, trades |-> trades0, calls |-> calls0]

\* a variant of RunEquity that values the ledger as it stood before the
\* bar's fill (the snapshot of line 758 instead of line 812)
RunEquity_PreFill(p, last_price) == RAdd(pos.cash, RMul(pos.position, last_price))

\* the equity of the single-feed ledger at a price (lines 758 and 812)
RunEquity(p, last_price) == RAdd(p.cash, RMul(p.position, last_price))

\* a variant of EquityPush that drops a point whose equity equals the last one
EquityPush_SkipUnchanged(curve, datetime, equity) ==
    IF curve # <<>> /\ curve[Len(curve)][2] = equity
    THEN curve
    ELSE Append(curve, <<datetime, equity>>)

\* equity_curve.push((datetime, equity)), lines 813 and 1512
EquityPush(curve, datetime, equity) == Append(curve, <<datetime, equity>>)

\* run(), lines 742-814: one iteration of the inner loop on bar idx, given
\* what the strategy does.  The values of the loop's variables afterwards.
RunBarBodyOf(strat, idx, response) ==
    LET bar_data == bars_data[idx + 1]
        last_price == bar_data.close
        nx == CallNext(strat, response, idx)
        calls1 == calls \o nx.calls
        default_symbol == UnwrapOr(bar_data.symbol, "DEFAULT")
        parsed == parse_action_fast(nx.obj, order_seq, last_price, default_symbol)
        stay == [pc |-> "bar", error |-> None, pos |-> pos, order_seq |-> order_seq,
                 trades |-> trades, calls |-> calls1, order_log |-> order_log,
                 equity_curve |-> equity_curve, i |-> idx]
    IN  IF IsSome(nx.err)
        THEN [stay EXCEPT !.pc = "error", !.error = nx.err]
        ELSE IF parsed.panic
        THEN [stay EXCEPT !.pc = "panic"]
        ELSE IF ~IsSome(parsed.order)
        THEN [stay EXCEPT
                !.equity_curve = EquityPush(equity_curve, bar_data.datetime,
                                            RunEquity(pos, last_price)),
                !.i = idx + 1]
        ELSE LET order == Unwrap(parsed.order)
                 calls2 == Append(calls1, Call("on_order", "submitted", order.id))
                 f == RunFill(order, last_price, pos, trades, calls2)
                 herr == FirstErr(Discard(strat.hooks["on_order"]),
                                  IF Len(f.trades) > Len(trades)
                                  THEN FirstErr(Discard(strat.hooks["on_trade"]),
                                                Discard(strat.hooks["on_order"]))
                                  ELSE None)
             IN  IF IsSome(herr)
                 THEN [stay EXCEPT !.pc = "error", !.error = herr, !.calls = calls2]
                 ELSE
                 [stay EXCEPT
                    !.pos = f.pos, !.trades = f.trades, !.calls = f.calls,
                    !.order_seq = parsed.order_seq,
                    !.order_log = Append(order_log, [o |-> order, at |-> idx]),
                    !.equity_curve = EquityPush(equity_curve, bar_data.datetime,
                                                RunEquity(f.pos, last_price)),
                    !.i = idx + 1]

RunBarBody(idx, response) == RunBarBodyOf(strategy, idx, response)

\* one iteration of `for i in chunk_start..chunk_end`
Run_Bar ==
    /\ pc = "bar"
    /\ i < chunk_end
    /\ \E response \in Responses :
        \E b \in {RunBarBody(i, response)} :
        /\ pc' = b.pc
        /\ error' = b.error
        /\ pos' = b.pos
        /\ order_seq' = b.order_seq
        /\ trades' = b.trades
        /\ calls' = b.calls
        /\ equity_curve' = b.equity_curve
        /\ order_log' = b.order_log
        /\ i' = b.i
    /\ UNCHANGED <<cfg, mode, strategy, bars_data, n_bars, batch_size, chunk_start,
                   chunk_end, result, multiVars, fnVars>>

\* the inner range is exhausted: the outer iterator steps by batch_size
\* (lines 738-739) or ends
Run_Chunk ==
    /\ pc = "bar"
    /\ i >= chunk_end
    /\ LET next_start == chunk_start + batch_size IN
       IF next_start < n_bars
       THEN /\ chunk_start' = next_start
            /\ chunk_end' = ChunkEnd(next_start, batch_size, n_bars)
            /\ i' = next_start
            /\ pc' = "bar"
       ELSE /\ pc' = "stop"
            /\ UNCHANGED <<chunk_start, chunk_end, i>>
    /\ UNCHANGED <<cfg, mode, strategy, bars_data, n_bars, pos, batch_size, outVars,
                   multiVars, fnVars>>

\* fn build_result (lines 1136-1171), without the stats dict
build_result(p, curve, trs) ==
    [cash |-> p.cash,
     position |-> p.position,
     avg_cost |-> p.avg_cost,
     equity |-> RAdd(p.cash,
                     RMul(p.position,
                          IF Len(curve) = 0 THEN R(0) ELSE curve[Len(curve)][2])),
     realized_pnl |-> p.realized_pnl,
     equity_curve |-> curve,
     trades |-> trs]

\* run(), lines 817-820: on_stop, then the result is built and returned
Run_Finish ==
    /\ pc = "stop"
    /\ calls' = Append(calls, Call("on_stop", "", 0))
    /\ LET herr == Discard(strategy.hooks["on_stop"]) IN
       IF IsSome(herr)
       THEN /\ pc' = "error" /\ error' = herr /\ UNCHANGED result
       ELSE /\ result' = Some(build_result(pos, equity_curve, trades))
            /\ pc' = "done"
            /\ UNCHANGED error
    /\ UNCHANGED <<cfg, mode, strategy, runVars, order_seq, equity_curve, trades,
                   order_log, multiVars, fnVars>>

\* a variant of MinDt whose comparison is turned round: it keeps the
\* largest datetime
RECURSIVE MinDt_Latest(_, _, _, _)
MinDt_Latest(fb, ix, f, min_dt) ==
    IF f > Len(fb) THEN min_dt
    ELSE LET cur == IF ix[f] < Len(fb[f]) THEN fb[f][ix[f] + 1].datetime ELSE None
             nxt == IF ~IsSome(cur) THEN min_dt
                    ELSE IF ~IsSome(min_dt) THEN cur
                    ELSE IF StrLt(Unwrap(min_dt), Unwrap(cur)) THEN cur
                    ELSE min_dt
         IN  MinDt_Latest(fb, ix, f + 1, nxt)

(***************************************************************************)
(* run_multi(): the joint timeline.                                        *)
(***************************************************************************)
\* a variant of MinDt that reads a missing datetime as the empty string
RECURSIVE MinDt_MissingAsEmpty(_, _, _, _)
MinDt_MissingAsEmpty(fb, ix, f, min_dt) ==
    IF f > Len(fb) THEN min_dt
    ELSE LET cur == IF ix[f] < Len(fb[f])
                    THEN Some(UnwrapOr(fb[f][ix[f] + 1].datetime, <<>>)) ELSE None
             nxt == IF ~IsSome(cur) THEN min_dt
                    ELSE IF ~IsSome(min_dt) THEN cur
                    ELSE IF StrLt(Unwrap(cur), Unwrap(min_dt)) THEN cur
                    ELSE min_dt
         IN  MinDt_MissingAsEmpty(fb, ix, f + 1, nxt)

\* lines 1373-1383: the least datetime among the feeds' current bars, a bar
\* without datetime being skipped; None when there is none
RECURSIVE MinDt(_, _, _, _)
MinDt(fb, ix, f, min_dt) ==
    IF f > Len(fb) THEN min_dt
    ELSE LET cur == IF ix[f] < Len(fb[f]) THEN fb[f][ix[f] + 1].datetime ELSE None
             nxt == IF ~IsSome(cur) THEN min_dt
                    ELSE IF ~IsSome(min_dt) THEN cur
                    ELSE IF StrLt(Unwrap(cur), Unwrap(min_dt)) THEN cur
                    ELSE min_dt
         IN  MinDt(fb, ix, f + 1, nxt)

\* a variant of Advance that stops at the first feed whose current bar
\* carries cur_dt
RECURSIVE Advance_FirstOnly(_, _, _, _, _)
Advance_FirstOnly(fids, fb, cur_dt, f, st) ==
    IF f > Len(fb) THEN st
    ELSE IF st.idxs[f] < Len(fb[f]) /\ fb[f][st.idxs[f] + 1].datetime = Some(cur_dt)
    THEN LET b == fb[f][st.idxs[f] + 1] IN
         [idxs |-> [st.idxs EXCEPT ![f] = @ + 1],
          last_snapshot |-> [st.last_snapshot EXCEPT ![f] = Some(b)],
          last_price_map |-> IF IsSome(b.symbol)
                             THEN MapPut(st.last_price_map, Unwrap(b.symbol), b.close)
                             ELSE st.last_price_map,
          slice |-> Append(st.slice, <<fids[f], b>>)]
    ELSE Advance_FirstOnly(fids, fb, cur_dt, f + 1, st)

\* lines 1388-1409: every feed whose current bar carries cur_dt is put in the
\* update slice, its snapshot and last price are set and its cursor advances
RECURSIVE Advance(_, _, _, _, _)
Advance(fids, fb, cur_dt, f, st) ==
    IF f > Len(fb) THEN st
    ELSE IF st.idxs[f] < Len(fb[f]) /\ fb[f][st.idxs[f] + 1].datetime = Some(cur_dt)
    THEN LET b == fb[f][st.idxs[f] + 1] IN
         Advance(fids, fb, cur_dt, f + 1,
                 [idxs |-> [st.idxs EXCEPT ![f] = @ + 1],
                  last_snapshot |-> [st.last_snapshot EXCEPT ![f] = Some(b)],
                  last_price_map |-> IF IsSome(b.symbol)
                                     THEN MapPut(st.last_price_map, Unwrap(b.symbol), b.close)
                                     ELSE st.last_price_map,
                  slice |-> Append(st.slice, <<fids[f], b>>)])
    ELSE Advance(fids, fb, cur_dt, f + 1, st)

\* lines 1421-1424 and 1508-1511: cash plus position times last price over
\* the symbols that have a last price
RECURSIVE SumPositions(_, _, _)
SumPositions(ps, lpm, syms) ==
    IF syms = {} THEN R(0)
    ELSE LET s == CHOOSE x \in syms : TRUE
         IN  RAdd(IF HasKey(lpm, s) THEN RMul(ps[s][1], lpm[s]) ELSE R(0),
                  SumPositions(ps, lpm, syms \ {s}))

MultiEquity(c, ps, lpm) == RAdd(c, SumPositions(ps, lpm, DOMAIN ps))

\* fn parse_actions_any, the list arm (lines 1021-1036)
RECURSIVE ParseItems(_, _, _, _, _, _)
ParseItems(items, k, seq, lpm, default_symbol, out) ==
    IF k > Len(items)
    THEN [panic |-> FALSE, orders |-> out, order_seq |-> seq]
    ELSE LET item == items[k]
             sym == IF item.kind = "dict" /\ IsSome(item.symbol)
                    THEN Unwrap(item.symbol) ELSE default_symbol
             lp == MapGetOr(lpm, sym, R(0))
             p == parse_action_fast(item, seq, lp, sym)
         IN  IF p.panic
             THEN [panic |-> TRUE, orders |-> out, order_seq |-> seq]
             ELSE ParseItems(items, k + 1, p.order_seq, lpm, default_symbol,
                             IF IsSome(p.order) THEN Append(out, Unwrap(p.order)) ELSE out)

\* fn parse_actions_any
parse_actions_any(action_obj, seq, lpm, default_symbol) ==
    IF action_obj.kind = "list"
    THEN ParseItems(action_obj.items, 1, seq, lpm, default_symbol, <<>>)
    ELSE LET lp == MapGetOr(lpm, default_symbol, R(0))
             p == parse_action_fast(action_obj, seq, lp, default_symbol)
         IN  [panic |-> p.panic,
              orders |-> IF IsSome(p.order) THEN <<Unwrap(p.order)>> ELSE <<>>,
              order_seq |-> p.order_seq]

\* _run_multi_impl, lines 1472-1482: a Buy fill on the symbol's entry sp
multi_buy(sp, exec_price, fill_size) ==
    LET new_pos == RAdd(sp[1], fill_size)
        avg == IF RLt(EPSILON, RAbs(new_pos))
               THEN (IF RLt(EPSILON, RAbs(sp[1]))
                     THEN RDiv(RAdd(RMul(sp[2], sp[1]), RMul(exec_price, fill_size)),
                               new_pos)
                     ELSE exec_price)
               ELSE R(0)
    IN  <<new_pos, avg>>

\* _run_multi_impl, lines 1483-1492: a Sell fill on the symbol's entry sp
multi_sell(sp, exec_price, fill_size) ==
    LET new_pos == RSub(sp[1], fill_size)
    IN  <<new_pos, AvgCostAfterSell(new_pos, sp[2])>>

\* the realized PnL a Sell fill books (lines 1485-1488)
multi_sell_pnl(sp, exec_price, fill_size) ==
    IF RLt(R(0), sp[1])
    THEN RMul(RSub(exec_price, sp[2]), ClosingSize(fill_size, sp[1]))
    ELSE R(0)

\* a variant of OrderAt that walks the orders from the last to the first
OrderAt_Reversed(orders, k) == orders[Len(orders) + 1 - k]

\* `for order in orders` (line 1460): the order taken in the k-th iteration
OrderAt(orders, k) == orders[k]

\* _run_multi_impl, lines 1460-1505: the orders of one tick, matched and
\* applied one after another; st carries cash, realized_pnl, positions,
\* trades and calls
RECURSIVE MultiFills(_, _, _, _)
MultiFills(orders, k, lpm, st) ==
    IF k > Len(orders) THEN st
    ELSE LET order == OrderAt(orders, k)
             lp == MapGetOr(lpm, order.symbol, R(0))
             m == try_match(order, lp)
         IN  IF ~IsSome(m)
             THEN MultiFills(orders, k + 1, lpm, st)
             ELSE LET fill_price == Unwrap(m)[1]
                      fill_size == Unwrap(m)[2]
                      exec_price == ExecPrice(order, fill_price, cfg.slippage_bps)
                      commission == Commission(exec_price, fill_size, cfg.commission_rate)
                      sp == MapGetOr(st.positions, order.symbol, <<R(0), R(0)>>)
                      amount == RMul(exec_price, fill_size)
                      st1 == IF order.side = "Buy"
                             THEN [st EXCEPT
                                     !.positions = MapPut(st.positions, order.symbol,
                                                          multi_buy(sp, exec_price, fill_size)),
                                     !.cash = RSub(st.cash, RAdd(amount, commission))]
                             ELSE [st EXCEPT
                                     !.realized_pnl =
                                         RAdd(st.realized_pnl,
                                              multi_sell_pnl(sp, exec_price, fill_size)),
                                     !.positions = MapPut(st.positions, order.symbol,
                                                          multi_sell(sp, exec_price, fill_size)),
                                     !.cash = RAdd(st.cash, RSub(amount, commission))]
                  IN  MultiFills(orders, k + 1, lpm,
                                 [st1 EXCEPT
                                    !.trades = Append(st.trades,
                                                      MkTrade(order, exec_price, fill_size)),
                                    !.calls = Append(st.calls,
                                                     Call("on_trade", "", order.id))])

\* The feeds handed to run_multi(): two feeds, "fA" with bars of symbol A and
\* "fB" with bars of symbol B; closes alternate 1, 2, ... in fA and 2, 1, ...
\* in fB.  A bar's datetime is "1", "2" or absent.
DtOpts == {None, Some(<<1>>), Some(<<2>>)}
FeedOf(sym, first, dts) ==
    [k \in 1..Len(dts) |->
        MkBar(dts[k], IF k % 2 = 1 THEN R(first) ELSE R(3 - first), Some(sym))]
FeedPairs(DtSeqs) ==
    {<<FeedOf("A", 1, da), FeedOf("B", 2, db)>> : da \in DtSeqs, db \in DtSeqs}

\* datetime sequences in any order, with absent datetimes
AnyDtSeqs == SeqsUpTo(DtOpts, MaxFeedLen)
\* datetime sequences in ascending order (repeats allowed), none absent
AscDtSeqs ==
    {ds \in SeqsUpTo({Some(<<1>>), Some(<<2>>)}, MaxFeedLen) :
        \A k \in 1..(Len(ds) - 1) : ~StrLt(Unwrap(ds[k + 1]), Unwrap(ds[k]))}

\* "next_multi": the strategy has next_multi(update_slice, ctx) and no next;
\* "bar_ctx": it has next(bar, ctx) and no next_multi.
MultiSigs == {"next_multi", "bar_ctx"}

\* The calls of run_multi() the model makes: a passive strategy on feeds of
\* any shape, and an active strategy on ascending feeds.
MultiInputs ==
    (FeedPairs(AnyDtSeqs) \X [sig : MultiSigs, active : {FALSE},
                               hooks : {HooksAll("ok")}])
        \cup (FeedPairs(AscDtSeqs) \X [sig : MultiSigs, active : {TRUE},
                                       hooks : {HooksAll("ok")}])

MultiResponses ==
    { Raise, PyNone, PyStr(S_SELL), PyStr(S_empty),
      PyDict(Some(S_BUY), None, Some(R(2)), None, Some("B")),
      PyList(<<PyDict(Some(S_SELL), None, Some(R(2)), None, Some("A")),
               PyDict(Some(S_BUY), Some(S_market), None, None, Some("A"))>>),
      PyList(<<PyDict(Some(S_BUY), Some(S_limit), None, Some(R(1)), Some("B")),
               PyOther,
               PyDict(Some(S_SELL), Some(S_limit), None, Some(R(2)), Some("Z"))>>) }

\* _run_multi_impl, lines 1334-1370, called with the feeds inp[1] and the
\* strategy inp[2]
MultiEnterWith(inp) ==
    /\ pc = "idle"
    /\ mode' = "run_multi"
    /\ strategy' = inp[2]
    /\ feed_ids' = <<"fA", "fB">>
    /\ feed_bars' = inp[1]
    /\ idxs' = [f \in 1..Len(inp[1]) |-> 0]
    /\ last_snapshot' = [f \in 1..Len(inp[1]) |-> None]
    /\ cash' = cfg.cash
    /\ realized_pnl' = R(0)
    /\ positions' = EmptyMap
    /\ last_price_map' = EmptyMap
    /\ equity_curve' = <<>>
    /\ trades' = <<>>
    /\ order_seq' = 1
    /\ calls' = <<Call("on_start", "", 0)>>
    /\ step' = 0
    /\ slices' = <<>>
    /\ order_log' = <<>>
    /\ pc' = IF IsSome(Discard(inp[2].hooks["on_start"])) THEN "error" ELSE "tick"
    /\ error' = Discard(inp[2].hooks["on_start"])
    /\ UNCHANGED <<cfg, runVars, result, fnVars>>

\* run_multi() never reads cfg.batch_size, so the model calls it on the
\* engines with batch_size 1.
Multi_Enter ==
    /\ pc = "idle"
    /\ cfg.batch_size = 1
    /\ \E inp \in MultiInputs : MultiEnterWith(inp)

\* lines 1436-1453: next_multi(update_slice, ctx); on any error from it the
\* fallback next(primary_bar, ctx) on feed 0's last snapshot, or None when
\* feed 0 has no snapshot yet.  bar is the bar handed to the fallback call,
\* None when it was not made.
CallNextMulti(strat, response, primary, idx) ==
    IF strat.sig = "next_multi"
    THEN IF response # Raise
         THEN [calls |-> <<Call("next_multi", "", idx)>>, err |-> None, obj |-> response,
               bar |-> None]
         ELSE IF IsSome(primary)
         THEN [calls |-> <<Call("next_multi", "", idx), Call("next", "bar_ctx", idx)>>,
               err |-> Some("AttributeError"), obj |-> PyNone, bar |-> primary]
         ELSE [calls |-> <<Call("next_multi", "", idx)>>, err |-> None, obj |-> PyNone,
               bar |-> None]
    ELSE IF ~IsSome(primary)
         THEN [calls |-> <<Call("next_multi", "", idx)>>, err |-> None, obj |-> PyNone,
               bar |-> None]
         ELSE IF response = Raise
         THEN [calls |-> <<Call("next_multi", "", idx), Call("next", "bar_ctx", idx)>>,
               err |-> Some("StrategyError"), obj |-> PyNone, bar |-> primary]
         ELSE [calls |-> <<Call("next_multi", "", idx), Call("next", "bar_ctx", idx)>>,
               err |-> None, obj |-> response, bar |-> primary]

\* lines 1371-1513: one pass of the loop that finds a datetime cur_dt
MultiTickBodyOf(strat, cur_dt, response) ==
    LET adv == Advance(feed_ids, feed_bars, cur_dt, 1,
                       [idxs |-> idxs, last_snapshot |-> last_snapshot,
                        last_price_map |-> last_price_map, slice |-> <<>>])
        primary == IF Len(adv.last_snapshot) >= 1 THEN adv.last_snapshot[1] ELSE None
        nx == CallNextMulti(strat, response, primary, step)
        default_symbol == IF IsSome(primary)
                          THEN UnwrapOr(Unwrap(primary).symbol, "DEFAULT")
                          ELSE "DEFAULT"
        parsed == parse_actions_any(nx.obj, order_seq, adv.last_price_map, default_symbol)
        base == [pc |-> "tick", error |-> None,
                 idxs |-> adv.idxs, last_snapshot |-> adv.last_snapshot,
                 last_price_map |-> adv.last_price_map,
                 slices |-> Append(slices, [t |-> cur_dt, slice |-> adv.slice,
                                            action |-> nx.obj, next_bar |-> nx.bar]),
                 cash |-> cash, realized_pnl |-> realized_pnl, positions |-> positions,
                 trades |-> trades, calls |-> calls \o nx.calls,
                 order_seq |-> order_seq, equity_curve |-> equity_curve, step |-> step,
                 order_log |-> order_log]
    IN  IF IsSome(nx.err)
        THEN [base EXCEPT !.pc = "error", !.error = nx.err]
        ELSE IF parsed.panic
        THEN [base EXCEPT !.pc = "panic"]
        ELSE LET f == MultiFills(parsed.orders, 1, adv.last_price_map,
                                 [cash |-> cash, realized_pnl |-> realized_pnl,
                                  positions |-> positions, trades |-> trades,
                                  calls |-> base.calls])
                 herr == IF Len(f.trades) > Len(trades)
                         THEN Discard(strat.hooks["on_trade"])
                         ELSE None
             IN  IF IsSome(herr)
                 THEN [base EXCEPT !.pc = "error", !.error = herr]
                 ELSE
                 [base EXCEPT
                    !.cash = f.cash, !.realized_pnl = f.realized_pnl,
                    !.positions = f.positions, !.trades = f.trades, !.calls = f.calls,
                    !.order_seq = parsed.order_seq,
                    !.order_log = order_log \o [k \in 1..Len(parsed.orders) |->
                                             [o |-> parsed.orders[k], at |-> step]],
                    !.equity_curve =
                        EquityPush(equity_curve, Some(cur_dt),
                                   MultiEquity(f.cash, f.positions, adv.last_price_map)),
                    !.step = step + 1]

MultiTickBody(cur_dt, response) == MultiTickBodyOf(strategy, cur_dt, response)

\* one pass of the loop (lines 1371-1514)
Multi_Tick ==
    /\ pc = "tick"
    /\ IsSome(MinDt(feed_bars, idxs, 1, None))
    /\ \E response \in (IF strategy.active /\ step < MaxActs
                         THEN MultiResponses ELSE {PyNone}) :
       \E b \in {MultiTickBody(Unwrap(MinDt(feed_bars, idxs, 1, None)), response)} :
        /\ pc' = b.pc
        /\ error' = b.error
        /\ idxs' = b.idxs
        /\ last_snapshot' = b.last_snapshot
        /\ last_price_map' = b.last_price_map
        /\ slices' = b.slices
        /\ cash' = b.cash
        /\ realized_pnl' = b.realized_pnl
        /\ positions' = b.positions
        /\ trades' = b.trades
        /\ calls' = b.calls
        /\ order_seq' = b.order_seq
        /\ equity_curve' = b.equity_curve
        /\ order_log' = b.order_log
        /\ step' = b.step
    /\ UNCHANGED <<cfg, mode, strategy, runVars, feed_ids, feed_bars, result, fnVars>>

\* the result dict of run_multi (lines 1519-1551), without the stats dict
multi_result(c, rp, curve, trs) ==
    [cash |-> c,
     position |-> R(0),
     avg_cost |-> R(0),
     equity |-> IF Len(curve) = 0 THEN c ELSE curve[Len(curve)][2],
     realized_pnl |-> rp,
     equity_curve |-> curve,
     trades |-> trs]

\* lines 1384 and 1516-1551: no current bar has a datetime, so the loop
\* breaks; on_stop is called and the result returned
Multi_Finish ==
    /\ pc = "tick"
    /\ ~IsSome(MinDt(feed_bars, idxs, 1, None))
    /\ calls' = Append(calls, Call("on_stop", "", 0))
    /\ LET herr == Discard(strategy.hooks["on_stop"]) IN
       IF IsSome(herr)
       THEN /\ pc' = "error" /\ error' = herr /\ UNCHANGED result
       ELSE /\ result' = Some(multi_result(cash, realized_pnl, equity_curve, trades))
            /\ pc' = "done"
            /\ UNCHANGED error
    /\ UNCHANGED <<cfg, mode, strategy, runVars, feed_ids, feed_bars, idxs,
                   last_snapshot, cash, realized_pnl, positions, last_price_map,
                   step, slices, order_seq, equity_curve, trades, order_log,
                   fnVars>>

Next ==
    \/ Run_Enter \/ Run_Bar \/ Run_Chunk \/ Run_Finish
    \/ Multi_Enter \/ Multi_Tick \/ Multi_Finish

Spec == Init /\ [][Next]_vars

\* ---------------------------------------------------------------------
\* Runs on strategies whose optional hooks are missing or raise: run() and
\* run_multi() on an engine with costs, with a strategy that implements the
\* primary decision call of the mode.
\* ---------------------------------------------------------------------
\* every hook fine, every hook failing the same way, or one hook failing
HookCases ==
    {HooksAll(o) : o \in HookOutcomes}
        \cup {[HooksAll("ok") EXCEPT !["on_order"] = "raise"],
              [HooksAll("ok") EXCEPT !["on_trade"] = "missing"]}

InitHooks ==
    /\ cfg = [cash |-> R(100), commission_rate |-> Q(1, 10), slippage_bps |-> R(1000),
              batch_size |-> 1]
    /\ EngineIdle
    /\ fn_in = [fn |-> "none"]
    /\ fn_out = None

Hooks_Run_Enter ==
    /\ pc = "idle"
    /\ \E bars \in RunBarLists,
          strat \in [sig : {"bar_ctx"}, active : {TRUE}, hooks : HookCases] :
            RunEnterWith(bars, strat)

Hooks_Multi_Enter ==
    /\ pc = "idle"
    /\ \E inp \in FeedPairs(AscDtSeqs)
                    \X [sig : {"next_multi"}, active : {TRUE}, hooks : HookCases] :
            MultiEnterWith(inp)

NextHooks ==
    \/ Hooks_Run_Enter \/ Run_Bar \/ Run_Chunk \/ Run_Finish
    \/ Hooks_Multi_Enter \/ Multi_Tick \/ Multi_Finish

SpecHooks == InitHooks /\ [][NextHooks]_vars

\* ---------------------------------------------------------------------
\* The joint scheduler on its own: run_multi() with a strategy that never
\* trades, on two feeds whose datetimes ascend (repeats allowed) over "1"
\* to "4".
\* ---------------------------------------------------------------------
\* the longest feed of the scheduler runs
MaxSchedLen == 3

SchedDts == {Some(<<1>>), Some(<<2>>), Some(<<3>>), Some(<<4>>)}
SchedDtSeqs ==
    {ds \in SeqsUpTo(SchedDts, MaxSchedLen) :
        \A k \in 1..(Len(ds) - 1) : ~StrLt(Unwrap(ds[k + 1]), Unwrap(ds[k]))}
SchedInputs ==
    FeedPairs(SchedDtSeqs) \X [sig : MultiSigs, active : {FALSE}, hooks : {HooksAll("ok")}]

InitSched ==
    /\ cfg = [cash |-> R(100), commission_rate |-> R(0), slippage_bps |-> R(0),
              batch_size |-> 1]
    /\ EngineIdle
    /\ fn_in = [fn |-> "none"]
    /\ fn_out = None

Sched_Enter ==
    /\ pc = "idle"
    /\ \E inp \in SchedInputs : MultiEnterWith(inp)

NextSched == Sched_Enter \/ Multi_Tick \/ Multi_Finish

SpecSched == InitSched /\ [][NextSched]_vars

\* ---------------------------------------------------------------------
\* The matcher on its own: try_match applied to every order of a small
\* family against every reference price.
\* ---------------------------------------------------------------------
MatchPrices == {R(1), R(2), R(3)}
MatchSizes == {R(-1), R(1), R(2)}

\* the orders parse_action_fast can build: a Market order has no limit
\* price, a Limit order always has one (line 989)
MatchOrders ==
    {MkOrder(1, side, "Market", size, None, "DEFAULT") :
        side \in {"Buy", "Sell"}, size \in MatchSizes}
    \cup
    {MkOrder(1, c[1], "Limit", c[2], Some(c[3]), "DEFAULT") :
        c \in {"Buy", "Sell"} \X MatchSizes \X MatchPrices}

InitMatch ==
    /\ cfg \in Configs
    /\ EngineIdle
    /\ fn_in \in [fn : {"try_match"}, order : MatchOrders, last_price : MatchPrices]
    /\ fn_out = None

Apply_try_match ==
    /\ fn_in.fn = "try_match"
    /\ fn_out = None
    /\ fn_out' = Some(try_match(fn_in.order, fn_in.last_price))
    /\ UNCHANGED <<cfg, pc, mode, strategy, runVars, multiVars, outVars, fn_in>>

NextMatch == Apply_try_match

SpecMatch == InitMatch /\ [][NextMatch]_vars

\* ---------------------------------------------------------------------
\* The action parser on its own: parse_action_fast applied once to an
\* object a strategy can return.
\* ---------------------------------------------------------------------
S_sell == <<"s", "e", "l", "l">>
S_Hold == <<"H", "o", "l", "d">>
ParseActions == {S_BUY, S_buy, S_SELL, S_sell, S_Hold}
ParseObjects ==
    {PyNone, PyOther}
        \cup {PyStr(a) : a \in ParseActions}
        \cup {PyDict(Some(d[1]), d[2], d[3], d[4], d[5]) :
                d \in ParseActions \X {None, Some(S_limit)}
                        \X {None, Some(R(2)), Some(R(0)), Some(R(-1))}
                        \X {None, Some(R(1))} \X {None, Some("B")}}

InitParse ==
    /\ cfg \in Configs
    /\ EngineIdle
    /\ fn_in \in [fn : {"parse_action_fast"}, action_obj : ParseObjects,
                   order_seq : {1, 2}, last_price : {R(3)}, default_symbol : {"A"}]
    /\ fn_out = None

Apply_parse_action_fast ==
    /\ fn_in.fn = "parse_action_fast"
    /\ fn_out = None
    /\ fn_out' = Some(parse_action_fast(fn_in.action_obj, fn_in.order_seq,
                                        fn_in.last_price, fn_in.default_symbol))
    /\ UNCHANGED <<cfg, pc, mode, strategy, runVars, multiVars, outVars, fn_in>>

NextParse == Apply_parse_action_fast

SpecParse == InitParse /\ [][NextParse]_vars

\* ---------------------------------------------------------------------
\* The indicator kernels on their own: vectorized_sma and vectorized_rsi
\* applied once to a price vector and a window.
\* ---------------------------------------------------------------------
\* vec![None; n]
AllNone(n) == [k \in 1..n |-> None]

\* vectorized_sma, lines 254-266: the loop from index idx (counted from 0)
\* with the running sum and the result so far
RECURSIVE sma_loop(_, _, _, _, _)
sma_loop(prices, window, idx, sum, res) ==
    IF idx >= Len(prices) THEN res
    ELSE IF idx < window
    THEN sma_loop(prices, window, idx + 1, RAdd(sum, prices[idx + 1]), Append(res, None))
    ELSE IF idx = window
    THEN LET sum1 == RAdd(sum, prices[idx + 1])
         IN  sma_loop(prices, window, idx + 1, sum1,
                      Append(res, Some(RDiv(sum1, R(window)))))
    ELSE LET sum1 == RAdd(RSub(sum, prices[idx - window + 1]), prices[idx + 1])
         IN  sma_loop(prices, window, idx + 1, sum1,
                      Append(res, Some(RDiv(sum1, R(window)))))

\* pub fn vectorized_sma (lines 246-268)
vectorized_sma(prices, window) ==
    IF Len(prices) = 0 \/ window = 0 THEN AllNone(Len(prices))
    ELSE sma_loop(prices, window, 0, R(0), <<>>)

\* vectorized_rsi, lines 349-359: gains and losses of the price changes
Gains(prices) ==
    [k \in 1..(Len(prices) - 1) |->
        LET change == RSub(prices[k + 1], prices[k]) IN
        IF RLt(R(0), change) THEN change ELSE R(0)]
Losses(prices) ==
    [k \in 1..(Len(prices) - 1) |->
        LET change == RSub(prices[k + 1], prices[k]) IN
        IF RLt(R(0), change) THEN R(0) ELSE RSub(R(0), change)]

\* iter().sum() of a slice
RECURSIVE SumSeq(_)
SumSeq(xs) == IF Len(xs) = 0 THEN R(0) ELSE RAdd(xs[1], SumSeq(Tail(xs)))

\* a variant of RsiValue without the case of no loss
RsiValue_NoLossCase(avg_gain, avg_loss) ==
    IF avg_loss = R(0) THEN R(0)
    ELSE RSub(R(100), RDiv(R(100), RAdd(R(1), RDiv(avg_gain, avg_loss))))

\* lines 376-380 and 387-391
RsiValue(avg_gain, avg_loss) ==
    IF avg_loss = R(0) THEN R(100)
    ELSE RSub(R(100), RDiv(R(100), RAdd(R(1), RDiv(avg_gain, avg_loss))))

\* vectorized_rsi, lines 365-393: the loop over the changes from index idx
\* (counted from 0)
RECURSIVE rsi_loop(_, _, _, _, _, _, _)
rsi_loop(gains, losses, window, idx, avg_gain, avg_loss, res) ==
    IF idx >= Len(gains) THEN res
    ELSE IF idx < window - 1
    THEN rsi_loop(gains, losses, window, idx + 1, avg_gain, avg_loss, Append(res, None))
    ELSE IF idx = window - 1
    THEN LET g == RDiv(SumSeq(SubSeq(gains, 1, window)), R(window))
             l == RDiv(SumSeq(SubSeq(losses, 1, window)), R(window))
         IN  rsi_loop(gains, losses, window, idx + 1, g, l,
                      Append(res, Some(RsiValue(g, l))))
    ELSE LET g == RDiv(RAdd(RMul(avg_gain, R(window - 1)), gains[idx + 1]), R(window))
             l == RDiv(RAdd(RMul(avg_loss, R(window - 1)), losses[idx + 1]), R(window))
         IN  rsi_loop(gains, losses, window, idx + 1, g, l,
                      Append(res, Some(RsiValue(g, l))))

\* pub fn vectorized_rsi (lines 339-395)
vectorized_rsi(prices, window) ==
    IF Len(prices) < 2 \/ window = 0 THEN AllNone(Len(prices))
    ELSE rsi_loop(Gains(prices), Losses(prices), window, 0, R(0), R(0), <<None>>)

\* the longest price vector drawn from IndPrices
MaxPrices == 4
IndPrices == {R(1), R(2), R(3)}
\* all short price vectors, and the vectors 1, 2, ..., 5 and 1, 2, ..., 15
IndVectors ==
    SeqsUpTo(IndPrices, MaxPrices)
        \cup {[k \in 1..5 |-> R(k)], [k \in 1..15 |-> R(k)]}
IndWindows == 0..(MaxPrices + 1) \cup {14}

\* ---------------------------------------------------------------------
\* lib.rs 1651-1777: factor_backtest_fast.  The two square roots are not
\* taken: ic is returned as its terms (ic = cov / (sqrt(var_f * var_r) +
\* 1e-12)) and the field std as the mean square deviation it is the root of.
\* ---------------------------------------------------------------------
\* line 1653, without the first test
FactorDegenerate_AnyQuantiles(n, quantiles, forward) == forward = 0 \/ n <= forward

\* line 1653: the inputs for which the empty result is returned
FactorDegenerate(n, quantiles, forward) == quantiles < 2 \/ forward = 0 \/ n <= forward

\* lines 1654-1661
EmptyFactorResult ==
    [panic |-> FALSE, quantiles |-> <<>>, mean_returns |-> <<>>, ic |-> None,
     monotonicity |-> R(0), q_bounds |-> <<>>, factor_stats |-> EmptyMap]

\* an index out of bounds
FactorPanic == [EmptyFactorResult EXCEPT !.panic = TRUE]

\* lines 1667-1672: the forward returns
ForwardReturn(c0, c1) == IF c0 # R(0) THEN RSub(RDiv(c1, c0), R(1)) ELSE R(0)

\* line 1679: sort_by(partial_cmp), ascending and stable
RECURSIVE InsertSorted(_, _)
InsertSorted(xs, x) ==
    IF Len(xs) = 0 THEN <<x>>
    ELSE IF RLt(x, xs[1]) THEN <<x>> \o xs
    ELSE <<xs[1]>> \o InsertSorted(Tail(xs), x)
RECURSIVE SortAsc(_)
SortAsc(xs) ==
    IF Len(xs) = 0 THEN <<>>
    ELSE InsertSorted(SortAsc(SubSeq(xs, 1, Len(xs) - 1)), xs[Len(xs)])

\* lines 1680-1685: the bound below group q + 1
QBound(sorted, q, quantiles) ==
    sorted[Min((Len(sorted) * q) \div quantiles, Len(sorted) - 1) + 1]

\* lines 1693-1695: the group (counted from 0) of a factor value
RECURSIVE GroupOf(_, _, _)
GroupOf(val, q_bounds, gi) ==
    IF gi < Len(q_bounds) /\ RLt(q_bounds[gi + 1], val)
    THEN GroupOf(val, q_bounds, gi + 1) ELSE gi

\* lines 1691-1698: the returns of the values whose group is gi, in order
RECURSIVE SelectReturns(_, _, _)
SelectReturns(xs, groups, gi) ==
    IF Len(xs) = 0 THEN <<>>
    ELSE (IF groups[1] = gi THEN <<xs[1]>> ELSE <<>>)
             \o SelectReturns(Tail(xs), Tail(groups), gi)

\* lines 1701-1704: the mean forward return of group gi
MeanReturn(fwd_returns, groups, gi) ==
    LET rs == SelectReturns(fwd_returns, groups, gi) IN
    IF Len(rs) > 0 THEN RDiv(SumSeq(rs), R(Len(rs))) ELSE R(0)

\* lines 1725-1735: (inc - dec) / (len - 1)
Monotonicity(mean_returns) ==
    LET steps == 1..(Len(mean_returns) - 1)
        inc == Cardinality({k \in steps : RLt(mean_returns[k], mean_returns[k + 1])})
        dec == Cardinality({k \in steps : RLt(mean_returns[k + 1], mean_returns[k])})
    IN IF Len(mean_returns) > 1 THEN Q(inc - dec, Len(mean_returns) - 1) ELSE R(0)

\* f64 min and max of a non-empty sequence (lines 1738-1745)
RECURSIVE RFoldMin(_)
RFoldMin(xs) ==
    IF Len(xs) = 1 THEN xs[1]
    ELSE LET m == RFoldMin(SubSeq(xs, 1, Len(xs) - 1))
         IN IF RLt(xs[Len(xs)], m) THEN xs[Len(xs)] ELSE m
RECURSIVE RFoldMax(_)
RFoldMax(xs) ==
    IF Len(xs) = 1 THEN xs[1]
    ELSE LET m == RFoldMax(SubSeq(xs, 1, Len(xs) - 1))
         IN IF RLt(m, xs[Len(xs)]) THEN xs[Len(xs)] ELSE m

factor_backtest_fast(closes, factors, quantiles, forward) ==
    LET n == Min(Len(closes), Len(factors)) IN
    IF FactorDegenerate(n, quantiles, forward) THEN EmptyFactorResult
    ELSE
    LET m == n - forward
        fwd_returns == [k \in 1..m |-> ForwardReturn(closes[k], closes[k + forward])]
        fac_trim == SubSeq(factors, 1, m)
        sorted == SortAsc(fac_trim)
        q_bounds == [q \in 1..(quantiles - 1) |-> QBound(sorted, q, quantiles)]
        groups == [k \in 1..m |-> GroupOf(fac_trim[k], q_bounds, 0)]
        mean_returns == [g \in 1..quantiles |-> MeanReturn(fwd_returns, groups, g - 1)]
        mean_f == RDiv(SumSeq(fac_trim), R(m))
        mean_r == RDiv(SumSeq(fwd_returns), R(m))
        df == [k \in 1..m |-> RSub(fac_trim[k], mean_f)]
        dr == [k \in 1..m |-> RSub(fwd_returns[k], mean_r)]
        cov == SumSeq([k \in 1..m |-> RMul(df[k], dr[k])])
        var_f == SumSeq([k \in 1..m |-> RMul(df[k], df[k])])
        var_r == SumSeq([k \in 1..m |-> RMul(dr[k], dr[k])])
    IN
    IF \E k \in 1..m : groups[k] >= quantiles THEN FactorPanic
    ELSE [panic |-> FALSE,
          quantiles |-> [g \in 1..quantiles |-> g],
          mean_returns |-> mean_returns,
          ic |-> Some([cov |-> cov, var_f |-> var_f, var_r |-> var_r]),
          monotonicity |-> Monotonicity(mean_returns),
          q_bounds |-> q_bounds,
          factor_stats |-> [mean |-> mean_f,
                            var |-> IF m > 1 THEN RDiv(var_f, R(m)) ELSE R(0),
                            min |-> RFoldMin(fac_trim),
                            max |-> RFoldMax(fac_trim)]]

\* the longest series given to the factor analyzer
MaxFactorLen == 3
FactorCloses == SeqsUpTo({R(0), R(1), R(2)}, MaxFactorLen)
FactorValues == SeqsUpTo({R(1), R(2)}, MaxFactorLen) \cup {<<R(3), R(1), R(2)>>}
FactorCounts == 0..3

InitInd ==
    /\ cfg = [cash |-> R(100), commission_rate |-> R(0), slippage_bps |-> R(0),
              batch_size |-> 1]
    /\ EngineIdle
    /\ fn_in \in [fn : {"vectorized_sma", "vectorized_rsi"}, prices : IndVectors,
                   window : IndWindows]
                  \cup [fn : {"factor_backtest_fast"}, closes : FactorCloses,
                        factors : FactorValues, quantiles : FactorCounts,
                        forward : FactorCounts]
    /\ fn_out = None

Apply_factor_backtest_fast ==
    /\ fn_in.fn = "factor_backtest_fast"
    /\ fn_out = None
    /\ fn_out' = Some(factor_backtest_fast(fn_in.closes, fn_in.factors,
                                           fn_in.quantiles, fn_in.forward))
    /\ UNCHANGED <<cfg, pc, mode, strategy, runVars, multiVars, outVars, fn_in>>

Apply_vectorized_sma ==
    /\ fn_in.fn = "vectorized_sma"
    /\ fn_out = None
    /\ fn_out' = Some(vectorized_sma(fn_in.prices, fn_in.window))
    /\ UNCHANGED <<cfg, pc, mode, strategy, runVars, multiVars, outVars, fn_in>>

Apply_vectorized_rsi ==
    /\ fn_in.fn = "vectorized_rsi"
    /\ fn_out = None
    /\ fn_out' = Some(vectorized_rsi(fn_in.prices, fn_in.window))
    /\ UNCHANGED <<cfg, pc, mode, strategy, runVars, multiVars, outVars, fn_in>>

NextInd == Apply_vectorized_sma \/ Apply_vectorized_rsi \/ Apply_factor_backtest_fast

SpecInd == InitInd /\ [][NextInd]_vars

\* ---------------------------------------------------------------------
\* The drawdown pass of the statistics kernel on its own, applied once to
\* the equities of a non-empty curve.
\* ---------------------------------------------------------------------
\* compute_enhanced_stats, lines 1214-1232: the loop over the curve from
\* point k, with the running peak and counters in st
RECURSIVE dd_loop(_, _, _)
dd_loop(eqs, k, st) ==
    IF k > Len(eqs) THEN st
    ELSE LET eq == eqs[k] IN
         IF RLt(st.peak, eq)
         THEN dd_loop(eqs, k + 1, [st EXCEPT !.peak = eq, !.dd_duration = 0])
         ELSE LET dur == st.dd_duration + 1
                  current_dd == RSub(R(1), RDiv(eq, st.peak))
              IN  dd_loop(eqs, k + 1,
                          [st EXCEPT
                             !.dd_duration = dur,
                             !.max_dd = IF RLt(st.max_dd, current_dd)
                                        THEN current_dd ELSE st.max_dd,
                             !.max_dd_duration = IF dur > st.max_dd_duration
                                                 THEN dur ELSE st.max_dd_duration])

\* compute_enhanced_stats, lines 1208-1232: max_drawdown and
\* max_dd_duration of a non-empty curve
drawdown_stats(eqs) ==
    LET st == dd_loop(eqs, 1, [peak |-> eqs[1], max_dd |-> R(0), dd_duration |-> 0,
                               max_dd_duration |-> 0])
    IN  [max_drawdown |-> st.max_dd, max_dd_duration |-> st.max_dd_duration]

\* the longest equity curve
MaxCurve == 4
CurveEquities == {R(1), R(2), R(3)}
Curves == SeqsUpTo(CurveEquities, MaxCurve) \ {<<>>}

InitStats ==
    /\ cfg = [cash |-> R(100), commission_rate |-> R(0), slippage_bps |-> R(0),
              batch_size |-> 1]
    /\ EngineIdle
    /\ fn_in \in [fn : {"compute_enhanced_stats"}, equity_curve : Curves]
    /\ fn_out = None

Apply_compute_enhanced_stats ==
    /\ fn_in.fn = "compute_enhanced_stats"
    /\ fn_out = None
    /\ fn_out' = Some(drawdown_stats(fn_in.equity_curve))
    /\ UNCHANGED <<cfg, pc, mode, strategy, runVars, multiVars, outVars, fn_in>>

NextStats == Apply_compute_enhanced_stats

SpecStats == InitStats /\ [][NextStats]_vars

\* ---------------------------------------------------------------------
\* database.rs: the period parser and the period floor on their own.
\* ---------------------------------------------------------------------
Digits == <<"0", "1", "2", "3", "4", "5", "6", "7", "8", "9">>
IsDigit(c) == \E k \in 1..10 : Digits[k] = c
DigitVal(c) == (CHOOSE k \in 1..10 : Digits[k] = c) - 1

\* the value of a non-empty string of digits
RECURSIVE DecimalVal(_)
DecimalVal(ds) ==
    IF Len(ds) = 0 THEN 0
    ELSE DecimalVal(SubSeq(ds, 1, Len(ds) - 1)) * 10 + DigitVal(ds[Len(ds)])

\* str::parse::<i64>().ok(): an optional sign followed by one or more
\* digits, nothing else
ParseI64(str) ==
    LET signed == Len(str) > 0 /\ str[1] \in {"+", "-"}
        body == IF signed THEN Tail(str) ELSE str
    IN  IF Len(body) = 0 \/ \E k \in 1..Len(body) : ~IsDigit(body[k])
        THEN None
        ELSE Some(IF signed /\ str[1] = "-" THEN -DecimalVal(body) ELSE DecimalVal(body))

\* char::to_lowercase on the letters of the period alphabet
LowerChar(c) ==
    IF c = "M" THEN "m" ELSE IF c = "O" THEN "o" ELSE c
\* str::to_lowercase
ToLowercase(str) == [k \in 1..Len(str) |-> LowerChar(str[k])]

\* str::ends_with
EndsWith(str, suffix) ==
    /\ Len(str) >= Len(suffix)
    /\ SubSeq(str, Len(str) - Len(suffix) + 1, Len(str)) = suffix

\* &s[..s.len() - n]
DropLast(str, n) == SubSeq(str, 1, Len(str) - n)

\* .map(|v| v * k) on the parsed prefix
ScaleOpt(o, k) == IF IsSome(o) THEN Some(Unwrap(o) * k) ELSE None

\* fn period_to_minutes (database.rs 92-133)
period_to_minutes(period) ==
    LET period_lower == ToLowercase(period) IN
    IF EndsWith(period_lower, <<"m">>)
    THEN ParseI64(DropLast(period_lower, 1))
    ELSE IF EndsWith(period_lower, <<"h">>)
    THEN ScaleOpt(ParseI64(DropLast(period_lower, 1)), 60)
    ELSE IF EndsWith(period_lower, <<"d">>)
    THEN ScaleOpt(ParseI64(DropLast(period_lower, 1)), 1440)
    ELSE IF EndsWith(period_lower, <<"w">>)
    THEN ScaleOpt(ParseI64(DropLast(period_lower, 1)), 10080)
    ELSE IF EndsWith(period_lower, <<"m", "o">>) \/ EndsWith(period_lower, <<"M">>)
    THEN LET num_str == IF EndsWith(period_lower, <<"m", "o">>)
                        THEN DropLast(period_lower, 2)
                        ELSE DropLast(period_lower, 1)
         IN  ScaleOpt(ParseI64(num_str), 43200)
    ELSE IF EndsWith(period_lower, <<"y">>)
    THEN ScaleOpt(ParseI64(DropLast(period_lower, 1)), 525600)
    ELSE None

\* i64 `/`: the quotient truncated towards zero (the divisor is not 0)
TruncDiv(a, b) ==
    IF (a >= 0) = (b > 0) THEN Abs(a) \div Abs(b) ELSE -(Abs(a) \div Abs(b))

\* a variant of RoundedMinutes that rounds to the nearest boundary
RoundedMinutes_Nearest(total_minutes, minutes) ==
    TruncDiv(total_minutes + (minutes \div 2), minutes) * minutes

\* round_down_to_period, line 247
RoundedMinutes(total_minutes, minutes) == TruncDiv(total_minutes, minutes) * minutes

\* NaiveDateTime, to the second: the date as a day number
MkDateTime(date, hour, minute, second) ==
    [date |-> date, hour |-> hour, minute |-> minute, second |-> second]

\* NaiveDate::and_hms_opt(hour, minute, 0).unwrap_or(dt)
AndHmsOr(date, hour, minute, dt) ==
    IF hour \in 0..23 /\ minute \in 0..59 THEN MkDateTime(date, hour, minute, 0) ELSE dt

\* fn round_down_to_period (database.rs 239-254): the instant returned, or
\* a panic when the division of line 247 is by zero
round_down_to_period(dt, minutes) ==
    IF minutes >= 1440
    THEN [panic |-> FALSE, dt |-> AndHmsOr(dt.date, 0, 0, dt)]
    ELSE IF minutes = 0
    THEN [panic |-> TRUE, dt |-> dt]
    ELSE LET total_minutes == dt.hour * 60 + dt.minute
             rounded_minutes == RoundedMinutes(total_minutes, minutes)
             new_hour == rounded_minutes \div 60
             new_minute == rounded_minutes % 60
         IN  [panic |-> FALSE, dt |-> AndHmsOr(dt.date, new_hour, new_minute, dt)]

\* the longest period string
MaxPeriodLen == 3
PeriodChars == {"0", "1", "2", "-", "+", "m", "M", "o", "O", "h", "d", "w", "y", "x"}
Periods == SeqsUpTo(PeriodChars, MaxPeriodLen)

\* instants of two days, and period lengths in minutes on both sides of a
\* day, with the values period_to_minutes returns for "0m" and "-1m"
FloorInstants ==
    {MkDateTime(d, h, m, sec) :
        d \in {1, 2}, h \in {0, 9, 14, 23}, m \in {0, 1, 14, 15, 23, 45, 59},
        sec \in {0, 30}}
FloorPeriods == {-1, 0, 1, 5, 7, 15, 60, 90, 1439, 1440, 10080}

InitPeriod ==
    /\ cfg = [cash |-> R(100), commission_rate |-> R(0), slippage_bps |-> R(0),
              batch_size |-> 1]
    /\ EngineIdle
    /\ fn_in \in [fn : {"period_to_minutes"}, period : Periods]
                    \cup [fn : {"round_down_to_period"}, dt : FloorInstants,
                          minutes : FloorPeriods]
    /\ fn_out = None

Apply_period_to_minutes ==
    /\ fn_in.fn = "period_to_minutes"
    /\ fn_out = None
    /\ fn_out' = Some(period_to_minutes(fn_in.period))
    /\ UNCHANGED <<cfg, pc, mode, strategy, runVars, multiVars, outVars, fn_in>>

Apply_round_down_to_period ==
    /\ fn_in.fn = "round_down_to_period"
    /\ fn_out = None
    /\ fn_out' = Some(round_down_to_period(fn_in.dt, fn_in.minutes))
    /\ UNCHANGED <<cfg, pc, mode, strategy, runVars, multiVars, outVars, fn_in>>

NextPeriod == Apply_period_to_minutes \/ Apply_round_down_to_period

SpecPeriod == InitPeriod /\ [][NextPeriod]_vars

\* ---------------------------------------------------------------------
\* database.rs: the resampler on its own, applied once to a bar list and a
\* period string.  Prices and volumes are f64; the inputs are whole numbers.
\* ---------------------------------------------------------------------
\* a datetime string "YYYY-MM-DD HH:MM:SS", by its fields, and a string no
\* format of parse_datetime accepts
FormatDatetime(dt) == <<"dt", dt.date, dt.hour, dt.minute, dt.second>>
BadDatetime == <<"bad">>

\* fn parse_datetime (database.rs 201-232)
parse_datetime(dt_str) ==
    IF dt_str[1] = "dt"
    THEN Some(MkDateTime(dt_str[2], dt_str[3], dt_str[4], dt_str[5]))
    ELSE None

\* struct KlineBar (database.rs 71-86)
KlineBar(datetime, open, high, low, close, volume, symbol) ==
    [datetime |-> datetime, open |-> open, high |-> high, low |-> low,
     close |-> close, volume |-> volume, symbol |-> symbol]

\* the folds of aggregate_bars over the fields of a non-empty group
RECURSIVE FoldMax(_)
FoldMax(xs) ==
    IF Len(xs) = 1 THEN xs[1]
    ELSE LET m == FoldMax(Tail(xs)) IN IF xs[1] > m THEN xs[1] ELSE m
RECURSIVE FoldMin(_)
FoldMin(xs) ==
    IF Len(xs) = 1 THEN xs[1]
    ELSE LET m == FoldMin(Tail(xs)) IN IF xs[1] < m THEN xs[1] ELSE m
RECURSIVE FoldSum(_)
FoldSum(xs) == IF Len(xs) = 0 THEN 0 ELSE xs[1] + FoldSum(Tail(xs))

\* a variant of GroupClose that takes the close of the group's first bar
GroupClose_First(group) == group[1].close

\* aggregate_bars, line 275: bars[bars.len() - 1].close
GroupClose(group) == group[Len(group)].close

\* fn aggregate_bars (database.rs 260-292) on a non-empty group
aggregate_bars(group, group_time) ==
    KlineBar(FormatDatetime(group_time),
             group[1].open,
             FoldMax([k \in 1..Len(group) |-> group[k].high]),
             FoldMin([k \in 1..Len(group) |-> group[k].low]),
             GroupClose(group),
             FoldSum([k \in 1..Len(group) |-> group[k].volume]),
             group[1].symbol)

\* a variant of NewGroup that starts a group only on another date
NewGroup_OnDateOnly(group_time, ct) == group_time.date # ct.date

\* resample_klines_rust, line 404: `if group_time != ct`
NewGroup(group_time, ct) == group_time # ct

\* resample_klines_rust, lines 385-418: the loop from bar k on, with the
\* bars emitted so far, the current group and its bucket time
RECURSIVE resample_loop(_, _, _, _)
resample_loop(bars, k, target_minutes, st) ==
    IF k > Len(bars) THEN st
    ELSE LET bar == bars[k]
             dt == parse_datetime(bar.datetime)
         IN  IF ~IsSome(dt) THEN [st EXCEPT !.err = Some("ValueError")]
             ELSE LET fl == round_down_to_period(Unwrap(dt), target_minutes) IN
                  IF fl.panic THEN [st EXCEPT !.panic = TRUE]
                  ELSE IF ~IsSome(st.current_group_time)
                  THEN resample_loop(bars, k + 1, target_minutes,
                            [st EXCEPT !.current_group = <<bar>>,
                                       !.current_group_time = Some(fl.dt)])
                  ELSE IF NewGroup(fl.dt, Unwrap(st.current_group_time))
                  THEN resample_loop(bars, k + 1, target_minutes,
                            [st EXCEPT
                               !.resampled =
                                   Append(st.resampled,
                                          aggregate_bars(st.current_group,
                                                         Unwrap(st.current_group_time))),
                               !.current_group = <<bar>>,
                               !.current_group_time = Some(fl.dt)])
                  ELSE resample_loop(bars, k + 1, target_minutes,
                            [st EXCEPT !.current_group = Append(st.current_group, bar)])

\* pub fn resample_klines_rust (database.rs 365-429): Ok(bars), Err, or a
\* panic
resample_klines_rust(bars, target_period) ==
    LET ok(out) == [err |-> None, panic |-> FALSE, bars |-> out]
        target_minutes == period_to_minutes(target_period)
    IN  IF Len(bars) = 0 THEN ok(<<>>)
        ELSE IF ~IsSome(target_minutes)
        THEN [err |-> Some("ValueError"), panic |-> FALSE, bars |-> <<>>]
        ELSE LET st == resample_loop(bars, 1, Unwrap(target_minutes),
                                     [err |-> None, panic |-> FALSE, resampled |-> <<>>,
                                      current_group |-> <<>>,
                                      current_group_time |-> None])
             IN  IF st.panic THEN [err |-> None, panic |-> TRUE, bars |-> <<>>]
                 ELSE IF IsSome(st.err) THEN [err |-> st.err, panic |-> FALSE, bars |-> <<>>]
                 ELSE ok(Append(st.resampled,
                                aggregate_bars(st.current_group,
                                               Unwrap(st.current_group_time))))

\* the longest bar list drawn from ResampleBars
MaxResampleLen == 3
\* minute bars of one day at 00:00, 00:04, 00:05 and 00:11, and a bar whose
\* datetime does not parse; three shapes of bar, the last one of another
\* symbol and with its open above its high
ResampleTimes ==
    {FormatDatetime(MkDateTime(1, 0, m, 0)) : m \in {0, 4, 5, 11}} \cup {BadDatetime}
ResampleBars ==
    {KlineBar(t, 1, 1, 1, 1, 1, "A") : t \in ResampleTimes}
        \cup {KlineBar(t, 2, 4, 1, 3, 2, "A") : t \in ResampleTimes}
        \cup {KlineBar(t, 5, 3, 2, 2, 1, "B") : t \in ResampleTimes}
\* the spec's example: 1m bars 00:00..00:05 with closes and volumes 1..6
ExampleBars ==
    [k \in 1..6 |-> KlineBar(FormatDatetime(MkDateTime(1, 0, k - 1, 0)), k, k, k, k, k, "A")]
ResampleInputs == SeqsUpTo(ResampleBars, MaxResampleLen) \cup {ExampleBars}
ResamplePeriods == {<<"5", "m">>, <<"1", "d">>, <<"0", "m">>, <<"5", "x">>}

InitResample ==
    /\ cfg = [cash |-> R(100), commission_rate |-> R(0), slippage_bps |-> R(0),
              batch_size |-> 1]
    /\ EngineIdle
    /\ fn_in \in [fn : {"resample_klines_rust"}, bars : ResampleInputs,
                   target_period : ResamplePeriods]
    /\ fn_out = None

Apply_resample_klines_rust ==
    /\ fn_in.fn = "resample_klines_rust"
    /\ fn_out = None
    /\ fn_out' = Some(resample_klines_rust(fn_in.bars, fn_in.target_period))
    /\ UNCHANGED <<cfg, pc, mode, strategy, runVars, multiVars, outVars, fn_in>>

NextResample == Apply_resample_klines_rust

SpecResample == InitResample /\ [][NextResample]_vars

\* ---------------------------------------------------------------------
\* database.rs: save_klines, statement by statement, on one period table.
\* fn_in holds the arguments and the table before the call; fn_out the
\* database during the call: the committed table, the table as the open
\* transaction sees it (None outside a transaction), the temp table and the
\* converted bars.  Any statement can fail; the batch insert fails whenever
\* a datetime is no timestamp.  When the call returns an error the
\* connection is dropped and an open transaction is rolled back.
\* ---------------------------------------------------------------------
\* a row of the period table: its key (symbol, datetime) and its values
Row(symbol, datetime, values) == [symbol |-> symbol, datetime |-> datetime, values |-> values]

\* INSERT ... ON CONFLICT (symbol, datetime) DO NOTHING of the rows k, k + 1,
\* ... of rows into table (lines 1113-1121)
RECURSIVE InsertOrIgnore(_, _, _)
InsertOrIgnore(table, rows, k) ==
    IF k > Len(rows) THEN table
    ELSE IF \E r \in table : r.symbol = rows[k].symbol /\ r.datetime = rows[k].datetime
    THEN InsertOrIgnore(table, rows, k + 1)
    ELSE InsertOrIgnore(table \cup {rows[k]}, rows, k + 1)

\* DELETE FROM table WHERE symbol = ? (lines 970-973)
DeleteSymbol(table, symbol) == {r \in table : r.symbol # symbol}

\* the items of the Python list bars: something that is no dict, or a dict
\* whose "datetime" is absent (read as "") or a timestamp string
NotADict == [kind |-> "other"]
BarDict(datetime) == [kind |-> "dict", datetime |-> datetime]

\* lines 984-1020: the KlineBar of a dict item
ConvertItem(item, symbol) == Row(symbol, UnwrapOr(item.datetime, ""), "new")

\* the longest list of bars saved
MaxSaveBars == 2
SaveItems == {NotADict, BarDict(None), BarDict(Some("t1")), BarDict(Some("t2"))}
SaveTables ==
    {{}, {Row("A", "t1", "old")}, {Row("A", "t1", "old"), Row("A", "t3", "old")},
     {Row("A", "t1", "old"), Row("B", "t1", "old")}}

InitStore ==
    /\ cfg = [cash |-> R(100), commission_rate |-> R(0), slippage_bps |-> R(0),
              batch_size |-> 1]
    /\ EngineIdle
    /\ fn_in \in [fn : {"save_klines"}, table : SaveTables, symbol : {"A"},
                   bars : SeqsUpTo(SaveItems, MaxSaveBars), replace : BOOLEAN]
    /\ fn_out = None

\* the statement at position pc fails: the error is returned, the
\* connection dropped and the open transaction, if any, rolled back
StoreFails(at) ==
    /\ pc' = "error"
    /\ error' = Some(at)
    /\ fn_out' = Some([Unwrap(fn_out) EXCEPT !.txn = None, !.temp = <<>>])

StoreFrame == UNCHANGED <<cfg, mode, strategy, runVars, multiVars, order_seq,
                          equity_curve, trades, calls, result, order_log, fn_in>>

\* lines 958-966: the connection is opened and the period table ensured
Save_Open ==
    /\ pc = "idle"
    /\ fn_in.fn = "save_klines"
    /\ fn_out' = Some([table |-> fn_in.table, txn |-> None, temp |-> <<>>,
                       kline_bars |-> <<>>])
    /\ pc' = "delete"
    /\ UNCHANGED error
    /\ StoreFrame

\* lines 968-980: `if replace { DELETE ... }`, executed before any
\* transaction is begun, so in a transaction of its own
Save_Delete ==
    /\ pc = "delete"
    /\ \/ /\ pc' = "convert"
          /\ fn_out' = Some([Unwrap(fn_out) EXCEPT
                                !.table = IF fn_in.replace
                                          THEN DeleteSymbol(@, fn_in.symbol) ELSE @])
          /\ UNCHANGED error
       \/ fn_in.replace /\ StoreFails("delete")
    /\ StoreFrame

\* lines 982-1021: the Python bars are converted; an item that is no dict
\* fails the downcast
Save_Convert ==
    /\ pc = "convert"
    /\ IF \E k \in 1..Len(fn_in.bars) : fn_in.bars[k].kind # "dict"
       THEN StoreFails("convert")
       ELSE /\ pc' = "begin"
            /\ fn_out' = Some([Unwrap(fn_out) EXCEPT
                                  !.kline_bars = [k \in 1..Len(fn_in.bars) |->
                                                    ConvertItem(fn_in.bars[k],
                                                                fn_in.symbol)]])
            /\ UNCHANGED error
    /\ StoreFrame

\* lines 1023-1029: BEGIN TRANSACTION
Save_Begin ==
    /\ pc = "begin"
    /\ \/ /\ pc' = "temp"
          /\ fn_out' = Some([Unwrap(fn_out) EXCEPT !.txn = Some(Unwrap(fn_out).table)])
          /\ UNCHANGED error
       \/ StoreFails("begin")
    /\ StoreFrame

\* lines 1034-1056: CREATE TEMP TABLE
Save_CreateTemp ==
    /\ pc = "temp"
    /\ \/ /\ pc' = "batch" /\ UNCHANGED <<fn_out, error>>
       \/ StoreFails("temp")
    /\ StoreFrame

\* lines 1065-1107: the batches are inserted into the temp table, whose
\* datetime column is a TIMESTAMP; with no bars no statement is executed
Save_BatchInsert ==
    /\ pc = "batch"
    /\ LET db == Unwrap(fn_out) IN
       \/ /\ \A k \in 1..Len(db.kline_bars) : db.kline_bars[k].datetime # ""
          /\ pc' = "insert"
          /\ fn_out' = Some([db EXCEPT !.temp = db.kline_bars])
          /\ UNCHANGED error
       \/ Len(db.kline_bars) > 0 /\ StoreFails("batch")
    /\ StoreFrame

\* lines 1109-1128: INSERT INTO the period table SELECT ... FROM the temp
\* table ON CONFLICT DO NOTHING
Save_InsertTarget ==
    /\ pc = "insert"
    /\ LET db == Unwrap(fn_out) IN
       \/ /\ pc' = "drop"
          /\ fn_out' = Some([db EXCEPT
                                !.txn = Some(InsertOrIgnore(Unwrap(db.txn), db.temp, 1))])
          /\ UNCHANGED error
       \/ StoreFails("insert")
    /\ StoreFrame

\* lines 1130-1136: DROP TABLE of the temp table
Save_DropTemp ==
    /\ pc = "drop"
    /\ \/ /\ pc' = "commit"
          /\ fn_out' = Some([Unwrap(fn_out) EXCEPT !.temp = <<>>])
          /\ UNCHANGED error
       \/ StoreFails("drop")
    /\ StoreFrame

\* lines 1138-1146: COMMIT
Save_Commit ==
    /\ pc = "commit"
    /\ \/ /\ pc' = "done"
          /\ fn_out' = Some([Unwrap(fn_out) EXCEPT !.table = Unwrap(Unwrap(fn_out).txn),
                                                   !.txn = None])
          /\ UNCHANGED error
       \/ StoreFails("commit")
    /\ StoreFrame

NextStore ==
    \/ Save_Open \/ Save_Delete \/ Save_Convert \/ Save_Begin \/ Save_CreateTemp
    \/ Save_BatchInsert \/ Save_InsertTarget \/ Save_DropTemp \/ Save_Commit

SpecStore == InitStore /\ [][NextStore]_vars

\* ---------------------------------------------------------------------
\* run_multi() on one feed and run() on the same bar list, side by side:
\* both are given the same engine, the same bars and, bar by bar, the same
\* object from the strategy.  The variables of the multi-feed loop hold
\* run_multi(); run() keeps its ledger and cursor in pos, i and the chunk
\* variables and the rest of its state in fn_out: its position pc, its
\* order counter, order log, trades and equity curve, and its result.  The
\* two advance together as long as these agree.
\* ---------------------------------------------------------------------
\* the bar lists: one symbol, datetimes "1", "2", ...
PairBarsOf(closes) ==
    [k \in 1..Len(closes) |-> MkBar(Some(<<k>>), closes[k], Some("A"))]
PairBarLists == {PairBarsOf(cs) : cs \in SeqsUpTo(Closes, MaxBars)}

\* what the strategy returns on a bar
PairResponses ==
    { Raise, PyNone, PyStr(S_BUY), PyStr(S_SELL),
      PyDict(Some(S_BUY), Some(S_market), Some(R(2)), None, None),
      PyDict(Some(S_SELL), None, Some(R(2)), None, Some("A")),
      PyDict(Some(S_BUY), Some(S_limit), None, Some(R(1)), None),
      PyDict(Some(S_SELL), Some(S_limit), None, Some(R(2)), Some("B")),
      PyList(<<PyStr(S_BUY)>>) }

\* the state of run() held in fn_out
PairRun(at, seq, log, trs, curve, res) ==
    [pc |-> at, order_seq |-> seq, order_log |-> log, trades |-> trs,
     equity_curve |-> curve, result |-> res]

\* the ids of the orders of a log, in order
IdsOf(log) == [k \in 1..Len(log) |-> log[k].o.id]

\* run() and run_multi() have produced the same so far and neither has ended
\* without the other
PairInStep ==
    LET r == Unwrap(fn_out) IN
    /\ \/ pc = "tick" /\ r.pc \in {"bar", "stop"}
       \/ pc = r.pc /\ pc \in {"done", "error", "panic"}
    /\ r.order_seq = order_seq
    /\ IdsOf(r.order_log) = IdsOf(order_log)
    /\ r.trades = trades
    /\ r.equity_curve = equity_curve
    /\ pos.cash = cash
    /\ pos.realized_pnl = realized_pnl

InitPair ==
    /\ cfg \in Configs
    /\ EngineIdle
    /\ fn_in = [fn |-> "run and run_multi"]
    /\ fn_out = None

\* both calls enter: lines 711-740 of run(), 1334-1370 of _run_multi_impl
Pair_Enter ==
    /\ pc = "idle"
    /\ \E bars \in PairBarLists, sig \in MultiSigs :
        LET bs == Min(cfg.batch_size, Len(bars)) IN
        /\ mode' = "run_multi"
        /\ strategy' = [sig |-> sig, active |-> TRUE, hooks |-> HooksAll("ok")]
        /\ feed_ids' = <<"fA">>
        /\ feed_bars' = <<bars>>
        /\ idxs' = <<0>>
        /\ last_snapshot' = <<None>>
        /\ cash' = cfg.cash
        /\ realized_pnl' = R(0)
        /\ positions' = EmptyMap
        /\ last_price_map' = EmptyMap
        /\ step' = 0
        /\ slices' = <<>>
        /\ bars_data' = bars
        /\ n_bars' = Len(bars)
        /\ pos' = NewPositionState(cfg.cash)
        /\ batch_size' = bs
        /\ chunk_start' = 0
        /\ chunk_end' = ChunkEnd(0, bs, Len(bars))
        /\ i' = 0
        /\ fn_out' = Some(PairRun(IF bs = 0 THEN "panic" ELSE "bar", 1, <<>>, <<>>,
                                  <<>>, None))
    /\ order_seq' = 1
    /\ equity_curve' = <<>>
    /\ trades' = <<>>
    /\ order_log' = <<>>
    /\ calls' = <<Call("on_start", "", 0)>>
    /\ pc' = "tick"
    /\ UNCHANGED <<cfg, result, error, fn_in>>

\* run() alone: its inner range is exhausted (lines 738-739)
Pair_Chunk ==
    /\ pc = "tick"
    /\ PairInStep
    /\ Unwrap(fn_out).pc = "bar"
    /\ i >= chunk_end
    /\ LET next_start == chunk_start + batch_size IN
       IF next_start < n_bars
       THEN /\ chunk_start' = next_start
            /\ chunk_end' = ChunkEnd(next_start, batch_size, n_bars)
            /\ i' = next_start
            /\ UNCHANGED fn_out
       ELSE /\ fn_out' = Some([Unwrap(fn_out) EXCEPT !.pc = "stop"])
            /\ UNCHANGED <<chunk_start, chunk_end, i>>
    /\ UNCHANGED <<cfg, pc, mode, strategy, bars_data, n_bars, pos, batch_size,
                   outVars, multiVars, fn_in>>

\* one pass of the loop of run_multi() and, unless run() is over, one
\* iteration of the loop of run(), on the same object from the strategy
Pair_Bar ==
    /\ pc = "tick"
    /\ IsSome(MinDt(feed_bars, idxs, 1, None))
    /\ LET r == Unwrap(fn_out) IN
       /\ \/ r.pc = "panic"
          \/ PairInStep /\ r.pc = "bar" /\ i < chunk_end
       /\ \E response \in PairResponses :
          \E b \in {MultiTickBody(Unwrap(MinDt(feed_bars, idxs, 1, None)), response)} :
            /\ pc' = b.pc
            /\ error' = b.error
            /\ idxs' = b.idxs
            /\ last_snapshot' = b.last_snapshot
            /\ last_price_map' = b.last_price_map
            /\ slices' = b.slices
            /\ cash' = b.cash
            /\ realized_pnl' = b.realized_pnl
            /\ positions' = b.positions
            /\ trades' = b.trades
            /\ calls' = b.calls
            /\ order_seq' = b.order_seq
            /\ equity_curve' = b.equity_curve
            /\ order_log' = b.order_log
            /\ step' = b.step
            /\ IF r.pc = "panic"
               THEN UNCHANGED <<pos, i, fn_out>>
               ELSE \E rb \in {RunBarBodyOf([strategy EXCEPT !.sig = "bar_ctx"], i,
                                             response)} :
                        /\ pos' = rb.pos
                        /\ i' = rb.i
                        /\ fn_out' = Some(PairRun(rb.pc, rb.order_seq, rb.order_log,
                                                  rb.trades, rb.equity_curve, None))
    /\ UNCHANGED <<cfg, mode, strategy, bars_data, n_bars, batch_size, chunk_start,
                   chunk_end, feed_ids, feed_bars, result, fn_in>>

\* the feed is exhausted: run_multi() returns its result (lines 1516-1551)
\* and run(), unless it is over, returns its own (lines 817-820)
Pair_Finish ==
    /\ pc = "tick"
    /\ ~IsSome(MinDt(feed_bars, idxs, 1, None))
    /\ LET r == Unwrap(fn_out) IN
       /\ \/ r.pc = "panic"
          \/ PairInStep /\ r.pc = "stop"
       /\ fn_out' = IF r.pc = "panic" THEN fn_out
                    ELSE Some([r EXCEPT !.pc = "done",
                                        !.result = Some(build_result(pos, equity_curve,
                                                                     trades))])
    /\ calls' = Append(calls, Call("on_stop", "", 0))
    /\ result' = Some(multi_result(cash, realized_pnl, equity_curve, trades))
    /\ pc' = "done"
    /\ UNCHANGED <<cfg, mode, strategy, runVars, multiVars, order_seq, equity_curve,
                   trades, error, order_log, fn_in>>

NextPair == Pair_Enter \/ Pair_Chunk \/ Pair_Bar \/ Pair_Finish

SpecPair == InitPair /\ [][NextPair]_vars

\* ---------------------------------------------------------------------
\* Properties
\* ---------------------------------------------------------------------

\* the strategy calls of run() so far that open a bar: next(bar, ctx)
BarCalls == SelectSeq(calls, LAMBDA c : c.fn = "next" /\ c.ev = "bar_ctx")

\* C1: the equity curve has one entry per processed bar.  In run(), when
\* the loop stands before bar i the curve has i entries (so i + 1 after bar
\* i), a bar that aborts the run adds none, and after the loop it has
\* exactly N, whatever the strategy returned and whether or not orders
\* filled.  In run_multi() it has one entry per completed tick.
C1_OneEquityPointPerBar ==
    /\ (mode = "run" /\ pc \in {"bar", "error"}) => Len(equity_curve) = i
    /\ (mode = "run" /\ pc \in {"bar", "stop", "done"}) =>
            Len(equity_curve) = Len(BarCalls)
    /\ (mode = "run" /\ pc \in {"stop", "done"}) => Len(equity_curve) = n_bars
    /\ mode = "run_multi" => Len(equity_curve) = step
    /\ (mode = "run_multi" /\ pc \in {"tick", "done"}) =>
            Len(equity_curve) = Len(slices)

\* a run over two bars that ended, one bar with a fill and one without
C1_Witness ==
    /\ mode = "run" /\ pc = "done" /\ n_bars >= 2
    /\ Len(trades) = 1
    /\ Len(equity_curve) = n_bars

\* the value of the holdings of run_multi() at the last prices
RECURSIVE HoldingsValue(_)
HoldingsValue(syms) ==
    IF syms = {} THEN R(0)
    ELSE LET s == CHOOSE x \in syms : TRUE
         IN  RAdd(RMul(positions[s][1], MapGetOr(last_price_map, s, R(0))),
                  HoldingsValue(syms \ {s}))

\* C2: the equity appended for a bar or tick is the value of the ledger
\* after that bar's fills: in run() cash + position * close of the bar, with
\* the bar's datetime; in run_multi() cash plus, over the symbols held,
\* position * last price, a symbol that never had a bar counting at the
\* price 0 at which its orders are matched.
C2_EquityIsPostFillValue ==
    /\ (mode = "run" /\ equity_curve # <<>>) =>
            LET n == Len(equity_curve) IN
            /\ equity_curve[n][1] = bars_data[n].datetime
            /\ equity_curve[n][2] =
                    RAdd(pos.cash, RMul(pos.position, bars_data[n].close))
    /\ (mode = "run_multi" /\ pc \in {"tick", "done"} /\ equity_curve # <<>>) =>
                equity_curve[Len(equity_curve)][2] =
                    RAdd(cash, HoldingsValue(DOMAIN positions))

\* the last bar of a run with costs filled an order and left a position
C2_Witness ==
    /\ mode = "run" /\ pc = "bar" /\ i >= 1
    /\ cfg.commission_rate # R(0)
    /\ trades # <<>> /\ order_log # <<>>
    /\ order_log[Len(order_log)].at = i - 1
    /\ trades[Len(trades)].order_id = order_log[Len(order_log)].o.id
    /\ pos.position # R(0)

\* the ids of the orders created so far, in creation order
OrderIds == [k \in 1..Len(order_log) |-> order_log[k].o.id]

\* C3: within one run the order ids are unique and strictly increasing in
\* creation order and the first is 1, for string, dict and list actions,
\* for limit orders that never fill and with ignored actions in between;
\* every trade carries the id of a created order.
C3_OrderIdsIncreaseFromOne ==
    /\ order_log # <<>> => OrderIds[1] = 1
    /\ \A j, k \in 1..Len(order_log) : j < k => OrderIds[j] < OrderIds[k]
    /\ \A t \in 1..Len(trades) :
            \E k \in 1..Len(order_log) : OrderIds[k] = trades[t].order_id

\* three or more orders from list and other actions, some of them unfilled
C3_Witness ==
    /\ mode = "run_multi"
    /\ Len(order_log) >= 3
    /\ Len(trades) >= 1
    /\ Len(trades) < Len(order_log)

\* C4: whenever the position of a symbol is 0 its average cost is 0, in the
\* ledger of run() and in every per-symbol entry of run_multi().
C4_FlatMeansZeroAvgCost ==
    /\ pos.position = R(0) => pos.avg_cost = R(0)
    /\ \A s \in DOMAIN positions :
            positions[s][1] = R(0) => positions[s][2] = R(0)

\* a position was bought at a positive price and sold back to zero
C4_Witness ==
    /\ mode = "run" /\ Len(trades) >= 2
    /\ trades[1].side = "BUY" /\ trades[2].side = "SELL"
    /\ RLt(R(0), trades[1].price)
    /\ pos.position = R(0)

\* C5: the average cost is never negative, in run() and in run_multi(),
\* also after selling short and buying back.
C5_AvgCostNeverNegative ==
    /\ RLe(R(0), pos.avg_cost)
    /\ \A s \in DOMAIN positions : RLe(R(0), positions[s][2])

\* the order with the given id, as it was created
OrderOfId(id) == order_log[CHOOSE k \in 1..Len(order_log) : order_log[k].o.id = id].o

\* run() without costs has filled exactly two orders so far, a market Buy
\* of size 1 and then a market Sell of size 1
RoundTrip ==
    /\ mode = "run"
    /\ cfg.commission_rate = R(0) /\ cfg.slippage_bps = R(0)
    /\ Len(trades) = 2
    /\ trades[1].side = "BUY" /\ trades[1].size = R(1)
    /\ trades[2].side = "SELL" /\ trades[2].size = R(1)
    /\ OrderOfId(trades[1].order_id).otype = "Market"
    /\ OrderOfId(trades[2].order_id).otype = "Market"

\* C6: without commission and slippage, starting flat, a market Buy of
\* size 1 filled at p followed by a market Sell of size 1 filled at q leaves
\* position 0, avg_cost 0, realized_pnl q - p and cash initial + (q - p).
C6_RoundTripBooksPriceDifference ==
    RoundTrip =>
        LET q_minus_p == RSub(trades[2].price, trades[1].price) IN
        /\ pos.position = R(0)
        /\ pos.avg_cost = R(0)
        /\ pos.realized_pnl = q_minus_p
        /\ pos.cash = RAdd(cfg.cash, q_minus_p)

\* a round trip bought and sold at different prices
C6_Witness ==
    /\ RoundTrip
    /\ trades[1].price # trades[2].price

\* C7: try_match fills exactly when the order is Market, or a Limit Buy
\* with P <= limit_price, or a Limit Sell with P >= limit_price; the fill
\* price is P for Market and limit_price for Limit, and the fill size is
\* the whole order size.
C7_TryMatchRule ==
    (fn_in.fn = "try_match" /\ IsSome(fn_out)) =>
        LET order == fn_in.order
            P == fn_in.last_price
            m == Unwrap(fn_out)
            fills == \/ order.otype = "Market"
                     \/ /\ order.otype = "Limit" /\ order.side = "Buy"
                        /\ RLe(P, Unwrap(order.limit_price))
                     \/ /\ order.otype = "Limit" /\ order.side = "Sell"
                        /\ RLe(Unwrap(order.limit_price), P)
        IN  /\ IsSome(m) <=> fills
            /\ IsSome(m) =>
                    /\ Unwrap(m)[1] = IF order.otype = "Market" THEN P
                                      ELSE Unwrap(order.limit_price)
                    /\ Unwrap(m)[2] = order.size

\* a Limit Sell above the reference price was tried and did not fill
C7_Witness ==
    /\ fn_in.fn = "try_match" /\ IsSome(fn_out)
    /\ fn_in.order.otype = "Limit" /\ fn_in.order.side = "Sell"
    /\ RLt(fn_in.last_price, Unwrap(fn_in.order.limit_price))
    /\ ~IsSome(Unwrap(fn_out))

\* the limit condition of order o is not met at the close of its bar
Unmatched(e) ==
    LET close == bars_data[e.at + 1].close IN
    /\ e.o.otype = "Limit"
    /\ \/ e.o.side = "Buy" /\ RLt(Unwrap(e.o.limit_price), close)
       \/ e.o.side = "Sell" /\ RLt(close, Unwrap(e.o.limit_price))

\* a bar of run() that created an order whose limit condition is not met
\* leaves the ledger and the trade list as they were and adds to the
\* callbacks only on_order(submitted) after the strategy calls
C8_UnmatchedBarStep ==
    (/\ mode = "run"
     /\ Len(order_log') = Len(order_log) + 1
     /\ Unmatched(order_log'[Len(order_log')])) =>
        LET e == order_log'[Len(order_log')]
            added == SubSeq(calls', Len(calls) + 1, Len(calls'))
        IN  /\ pos' = pos
            /\ trades' = trades
            /\ e.at = i
            /\ Len(added) >= 2
            /\ added[Len(added)] = Call("on_order", "submitted", e.o.id)
            /\ \A k \in 1..(Len(added) - 1) : added[k].fn = "next"

\* no trade and no on_trade or on_order(filled) callback ever carries the id
\* of an order that did not match at its own bar
C8_UnmatchedNeverFills ==
    mode = "run" =>
        \A k \in 1..Len(order_log) :
            Unmatched(order_log[k]) =>
                /\ \A t \in 1..Len(trades) :
                        trades[t].order_id # order_log[k].o.id
                /\ \A c \in 1..Len(calls) :
                        calls[c].id = order_log[k].o.id =>
                            /\ calls[c].fn # "on_trade"
                            /\ ~(calls[c].fn = "on_order" /\ calls[c].ev = "filled")

\* C8: when an order does not match at its bar (limit condition not met)
\* the bar changes neither the ledger (cash, position, avg_cost,
\* realized_pnl) nor the trade list; on_order(submitted) is delivered for
\* it but neither on_trade nor on_order(filled), and no later bar fills it.
C8_UnmatchedOrderHasNoEffect ==
    /\ [][C8_UnmatchedBarStep]_vars
    /\ [](C8_UnmatchedNeverFills)

\* a Buy Limit below the close was submitted on the first bar and the run
\* went on to fill another order on a later bar
C8_Witness ==
    /\ mode = "run" /\ Len(order_log) >= 2
    /\ Unmatched(order_log[1])
    /\ order_log[1].o.side = "Buy"
    /\ Len(trades) = 1
    /\ trades[1].order_id = order_log[2].o.id

\* the callbacks of the log
IsSubmitted(c, id) == c = Call("on_order", "submitted", id)
IsOnTrade(c, id) == c = Call("on_trade", "", id)
IsFilled(c, id) == c = Call("on_order", "filled", id)

\* C9: in run() the callbacks of an order come in the order
\* on_order(submitted), on_trade, on_order(filled), directly after the
\* strategy call of the order's own bar and so before the next bar's
\* strategy call; on_order(filled) comes only after on_order(submitted) of
\* the same id, and exactly for the ids that have a trade record.
C9_CallbackOrder ==
    mode = "run" =>
        /\ \A k \in 1..Len(calls) :
                LET c == calls[k] IN
                /\ (c.fn = "on_order" /\ c.ev = "submitted") =>
                        /\ k > 1 /\ calls[k - 1].fn = "next"
                        /\ \E e \in 1..Len(order_log) :
                                /\ order_log[e].o.id = c.id
                                /\ order_log[e].at = calls[k - 1].id
                /\ c.fn = "on_trade" =>
                        /\ k > 1 /\ IsSubmitted(calls[k - 1], c.id)
                        /\ k < Len(calls) /\ IsFilled(calls[k + 1], c.id)
                /\ (c.fn = "on_order" /\ c.ev = "filled") =>
                        /\ k > 2 /\ IsOnTrade(calls[k - 1], c.id)
                        /\ IsSubmitted(calls[k - 2], c.id)
        /\ \A id \in 1..order_seq :
                (\E k \in 1..Len(calls) : IsFilled(calls[k], id))
                    <=> (\E t \in 1..Len(trades) : trades[t].order_id = id)
        /\ Len(SelectSeq(calls, LAMBDA c : c.fn = "on_order" /\ c.ev = "filled"))
                = Len(trades)

\* a run with a filled order on one bar and an unfilled one on the next
C9_Witness ==
    /\ mode = "run" /\ pc = "done"
    /\ Len(order_log) = 2 /\ Len(trades) = 1
    /\ trades[1].order_id = 1
    /\ \E k \in 1..Len(calls) : IsFilled(calls[k], 1)
    /\ \E k \in 1..Len(calls) : IsSubmitted(calls[k], 2)

C11_RunEndsInResultOrError ==
    (mode = "run" /\ cfg.batch_size > 0) =>
        /\ pc # "panic"
        /\ (n_bars = 0 /\ pc = "done") =>
                /\ IsSome(result)
                /\ Unwrap(result).equity_curve = <<>>
                /\ Unwrap(result).trades = <<>>
                /\ Unwrap(result).cash = cfg.cash

\* every bar of the feed has a datetime and the datetimes do not decrease
FeedAscending(bars) ==
    /\ \A k \in 1..Len(bars) : IsSome(bars[k].datetime)
    /\ \A k \in 1..(Len(bars) - 1) :
            ~StrLt(Unwrap(bars[k + 1].datetime), Unwrap(bars[k].datetime))

\* ... and the datetimes increase
FeedStrictlyAscending(bars) ==
    /\ \A k \in 1..Len(bars) : IsSome(bars[k].datetime)
    /\ \A k \in 1..(Len(bars) - 1) :
            StrLt(Unwrap(bars[k].datetime), Unwrap(bars[k + 1].datetime))

FeedsAscending == \A f \in 1..Len(feed_bars) : FeedAscending(feed_bars[f])
FeedsStrictlyAscending ==
    \A f \in 1..Len(feed_bars) : FeedStrictlyAscending(feed_bars[f])

\* C12: in run_multi(), when every feed is ordered ascending by datetime,
\* the datetimes written to the equity curve never decrease from one tick
\* to the next.
C12_EquityDatetimesNonDecreasing ==
    (mode = "run_multi" /\ FeedsAscending) =>
        \A k \in 1..(Len(equity_curve) - 1) :
            /\ IsSome(equity_curve[k][1]) /\ IsSome(equity_curve[k + 1][1])
            /\ ~StrLt(Unwrap(equity_curve[k + 1][1]), Unwrap(equity_curve[k][1]))

\* a finished run of three or more ticks whose datetimes rise between the
\* first and the last, on feeds that interleave
C12_Witness ==
    /\ mode = "run_multi" /\ pc = "done" /\ FeedsAscending
    /\ Len(equity_curve) >= 3
    /\ StrLt(Unwrap(equity_curve[1][1]), Unwrap(equity_curve[2][1]))
    /\ StrLt(Unwrap(equity_curve[2][1]), Unwrap(equity_curve[3][1]))
    /\ Len(feed_bars[1]) >= 1 /\ Len(feed_bars[2]) >= 1
    /\ StrLt(Unwrap(feed_bars[2][1].datetime), Unwrap(feed_bars[1][Len(feed_bars[1])].datetime))
    /\ StrLt(Unwrap(feed_bars[1][1].datetime), Unwrap(feed_bars[2][Len(feed_bars[2])].datetime))

\* the datetime of every tick is greater than that of the tick before
TicksStrictlyIncrease ==
    \A k \in 1..(Len(slices) - 1) : StrLt(slices[k].t, slices[k + 1].t)

\* C13: in run_multi(), for feeds each strictly ascending by datetime (no
\* datetime twice in one feed), every tick's datetime is greater than the
\* previous tick's, so no datetime occurs in two ticks.
C13_TicksStrictlyMonotone ==
    (mode = "run_multi" /\ FeedsStrictlyAscending) => TicksStrictlyIncrease

\* C13 as stated, for feeds ascending with repeats allowed
C13_TicksStrictlyMonotone_AnyAscending ==
    (mode = "run_multi" /\ FeedsAscending) => TicksStrictlyIncrease

\* strictly ascending feeds that share a datetime, after three ticks
C13_Witness ==
    /\ mode = "run_multi" /\ FeedsStrictlyAscending
    /\ Len(slices) >= 3
    /\ \E k \in 1..Len(slices) : Len(slices[k].slice) = 2

\* the datetime of feed f's current bar, None when the feed is exhausted
CurDt(f) ==
    IF idxs[f] < Len(feed_bars[f]) THEN feed_bars[f][idxs[f] + 1].datetime ELSE None

\* the symbols of the bars that feeds with current datetime t present
SymbolsAt(t) ==
    {Unwrap(feed_bars[f][idxs[f] + 1].symbol) :
        f \in {g \in 1..Len(feed_bars) :
                    CurDt(g) = Some(t) /\ IsSome(feed_bars[g][idxs[g] + 1].symbol)}}

\* a tick: t is the least current datetime; the slice holds, once each and
\* in feed order, the feeds whose current bar carries t, with that bar; their
\* cursors advance by one and the last price of the bar's symbol becomes its
\* close; the other cursors and last prices stay
C14_TickStep ==
    (mode = "run_multi" /\ Len(slices') = Len(slices) + 1) =>
        LET e == slices'[Len(slices')]
            t == e.t
            hit == {f \in 1..Len(feed_bars) : CurDt(f) = Some(t)}
        IN  /\ hit # {}
            /\ \A f \in 1..Len(feed_bars) :
                    IsSome(CurDt(f)) => ~StrLt(Unwrap(CurDt(f)), t)
            /\ Len(e.slice) = Cardinality(hit)
            /\ \A f \in hit :
                    \E k \in 1..Len(e.slice) :
                        e.slice[k] = <<feed_ids[f], feed_bars[f][idxs[f] + 1]>>
            /\ \A f \in 1..Len(feed_bars) :
                    idxs'[f] = IF f \in hit THEN idxs[f] + 1 ELSE idxs[f]
            /\ \A f \in hit :
                    LET b == feed_bars[f][idxs[f] + 1] IN
                    /\ last_snapshot'[f] = Some(b)
                    /\ IsSome(b.symbol) =>
                            /\ HasKey(last_price_map', Unwrap(b.symbol))
                            /\ last_price_map'[Unwrap(b.symbol)] = b.close
            /\ \A f \in (1..Len(feed_bars)) \ hit :
                    last_snapshot'[f] = last_snapshot[f]
            /\ DOMAIN last_price_map' = (DOMAIN last_price_map) \cup SymbolsAt(t)
            /\ \A sym \in (DOMAIN last_price_map) \ SymbolsAt(t) :
                    last_price_map'[sym] = last_price_map[sym]

\* the datetimes of all bars of all feeds
AllDts ==
    UNION {{Unwrap(feed_bars[f][k].datetime) : k \in 1..Len(feed_bars[f])} :
            f \in 1..Len(feed_bars)}

\* after a run on strictly ascending feeds there are as many ticks as
\* distinct datetimes, and every bar is in exactly one slice
C14_EveryBarOnce ==
    (mode = "run_multi" /\ pc = "done" /\ FeedsStrictlyAscending) =>
        /\ Len(slices) = Cardinality(AllDts)
        /\ \A f \in 1..Len(feed_bars) : \A k \in 1..Len(feed_bars[f]) :
                Cardinality({<<j, n>> \in (1..Len(slices)) \X (1..Len(feed_bars)) :
                                /\ n <= Len(slices[j].slice)
                                /\ slices[j].slice[n] =
                                        <<feed_ids[f], feed_bars[f][k]>>}) = 1

\* C14: at every run_multi() tick t is the least datetime among the
\* feeds' current bars, the update slice holds exactly the feeds whose
\* current bar has datetime t, each of their cursors advances by one and
\* its last price becomes that bar's close, and every other cursor and last
\* price is unchanged; so for strictly ascending feeds the ticks are as
\* many as the distinct datetimes and every bar is in exactly one slice.
C14_TickAdvancesExactlyTheMinimum ==
    /\ [][C14_TickStep]_vars
    /\ [](C14_EveryBarOnce)

\* the feeds of the slice with the given number
SliceFeeds(j) == {slices[j].slice[n][1] : n \in 1..Len(slices[j].slice)}

\* feeds A = [1, 3] and B = [2, 3, 4]: the slices are {A}, {B}, {A, B}, {B}
C14_Witness ==
    /\ mode = "run_multi" /\ pc = "done"
    /\ [k \in 1..Len(feed_bars[1]) |-> feed_bars[1][k].datetime]
            = <<Some(<<1>>), Some(<<3>>)>>
    /\ [k \in 1..Len(feed_bars[2]) |-> feed_bars[2][k].datetime]
            = <<Some(<<2>>), Some(<<3>>), Some(<<4>>)>>
    /\ Len(slices) = 4 /\ Len(equity_curve) = 4
    /\ [j \in 1..4 |-> slices[j].t] = <<<<1>>, <<2>>, <<3>>, <<4>>>>
    /\ [j \in 1..4 |-> SliceFeeds(j)] = <<{"fA"}, {"fB"}, {"fA", "fB"}, {"fB"}>>

\* C15: run_multi() stops only when no feed has a remaining bar: when the
\* loop has ended every feed's cursor equals the feed's length, for every
\* finite set of finite feeds.
C15_StopsOnlyWhenExhausted ==
    (mode = "run_multi" /\ pc = "done") =>
        \A f \in 1..Len(feed_bars) : idxs[f] = Len(feed_bars[f])

\* the orders created at the given tick, in the order of their creation
OrdersAt(tick) == SelectSeq(order_log, LAMBDA e : e.at = tick)

\* the items of a returned list that make an order: strings and dicts with
\* a non-empty action
OrderItems(action) ==
    IF action.kind # "list" THEN <<>>
    ELSE SelectSeq(action.items,
                   LAMBDA it : \/ it.kind = "str"
                               \/ it.kind = "dict" /\ UnwrapOr(it.action, S_empty) # S_empty)

\* the ledger of run_multi() obtained by applying the trades k, k + 1, ...
\* of the trade log, one after another, to the ledger st
RECURSIVE ReplayTrades(_, _)
ReplayTrades(k, st) ==
    IF k > Len(trades) THEN st
    ELSE LET tr == trades[k]
             sym == OrderOfId(tr.order_id).symbol
             sp == MapGetOr(st.positions, sym, <<R(0), R(0)>>)
             amount == RMul(tr.price, tr.size)
             fee == RMul(amount, cfg.commission_rate)
         IN  ReplayTrades(k + 1,
                IF tr.side = "BUY"
                THEN [cash |-> RSub(st.cash, RAdd(amount, fee)),
                      realized_pnl |-> st.realized_pnl,
                      positions |-> MapPut(st.positions, sym,
                                           multi_buy(sp, tr.price, tr.size))]
                ELSE [cash |-> RAdd(st.cash, RSub(amount, fee)),
                      realized_pnl |-> RAdd(st.realized_pnl,
                                            multi_sell_pnl(sp, tr.price, tr.size)),
                      positions |-> MapPut(st.positions, sym,
                                           multi_sell(sp, tr.price, tr.size))])

\* C16: the orders of a list returned in one run_multi() tick are matched
\* and applied one after another in list order: the orders created in the
\* tick are the list's items in list order with increasing ids, the trade
\* log is in the order of the ids, and the ledger is what results from
\* applying the trades one by one in the order of the log, each to the
\* cash and positions the earlier ones left.
C16_ListOrdersApplyInListOrder ==
    (mode = "run_multi" /\ pc \in {"tick", "done"}) =>
        /\ \A j \in 1..Len(slices) :
                slices[j].action.kind = "list" =>
                    LET items == OrderItems(slices[j].action)
                        os == OrdersAt(j - 1)
                    IN  /\ Len(os) = Len(items)
                        /\ \A n \in 1..Len(os) :
                                /\ os[n].o.side = SideOfAction(Unwrap(items[n].action))
                                /\ os[n].o.symbol = Unwrap(items[n].symbol)
                                /\ os[n].o.size = UnwrapOr(items[n].size, R(1))
                                /\ os[n].o.id = os[1].o.id + (n - 1)
        /\ \A a, b \in 1..Len(trades) :
                a < b => trades[a].order_id < trades[b].order_id
        /\ ReplayTrades(1, [cash |-> cfg.cash, realized_pnl |-> R(0),
                            positions |-> EmptyMap])
                = [cash |-> cash, realized_pnl |-> realized_pnl,
                   positions |-> positions]

\* a tick returned [SELL A size 2, BUY A] and both filled: the sale opened a
\* short position that the purchase then reduced
C16_Witness ==
    /\ mode = "run_multi" /\ pc \in {"tick", "done"}
    /\ Len(slices) >= 1 /\ slices[1].action.kind = "list"
    /\ Len(trades) >= 2
    /\ trades[1].side = "SELL" /\ trades[2].side = "BUY"
    /\ OrderOfId(trades[1].order_id).symbol = "A"
    /\ OrderOfId(trades[2].order_id).symbol = "A"
    /\ order_log[1].at = 0 /\ order_log[2].at = 0
    /\ HasKey(positions, "A")

\* C17: in run_multi(), when the strategy has no next_multi, every tick
\* calls next(bar, ctx) with the first bar updated in that tick, a bar whose
\* datetime is the tick's t: the fallback is called once per tick and never
\* gets a bar of an earlier tick.
C17_FallbackGetsFirstUpdatedBar ==
    (mode = "run_multi" /\ strategy.sig = "bar_ctx") =>
        \A j \in 1..Len(slices) :
            /\ IsSome(slices[j].next_bar)
            /\ Unwrap(slices[j].next_bar) = slices[j].slice[1][2]
            /\ Unwrap(slices[j].next_bar).datetime = Some(slices[j].t)

\* the strategy implements the primary decision call of the running mode:
\* next(bar, ctx) in run(), next_multi(update_slice, ctx) in run_multi()
HasPrimaryCall ==
    \/ mode = "run" /\ strategy.sig = "bar_ctx"
    \/ mode = "run_multi" /\ strategy.sig = "next_multi"

\* C18: if the strategy's primary decision call raises, the run aborts at
\* that bar: the strategy's decision methods are not called again (no
\* second call with other arguments or of the other method), and the error
\* surfaced to the caller is the one the strategy raised.
C18_RaiseAbortsWithOriginalError ==
    HasPrimaryCall =>
        /\ \A k \in 1..Len(calls) :
                calls[k].fn \in {"next", "next_multi"} =>
                    calls[k] = Call(IF mode = "run" THEN "next" ELSE "next_multi",
                                    IF mode = "run" THEN "bar_ctx" ELSE "",
                                    calls[k].id)
        /\ pc = "error" => error = Some("StrategyError")

\* the strategy of the run with every hook present and succeeding
AllHooksOk(strat) == [strat EXCEPT !.hooks = HooksAll("ok")]

\* one step of a run does to the run's state exactly what the same step
\* does when every hook succeeds
C19_SameAsWithGoodHooks ==
    /\ (pc = "idle" /\ mode' = "run") =>
            /\ pc' = (IF batch_size' = 0 THEN "panic" ELSE "bar")
            /\ error' = None
    /\ (pc = "idle" /\ mode' = "run_multi") =>
            /\ pc' = "tick"
            /\ error' = None
    /\ (pc = "bar" /\ i < chunk_end) =>
            \E response \in Responses :
                \E b \in {RunBarBodyOf(AllHooksOk(strategy), i, response)} :
                    <<pc', error', pos', order_seq', trades', equity_curve', calls', i'>>
                        = <<b.pc, b.error, b.pos, b.order_seq, b.trades,
                            b.equity_curve, b.calls, b.i>>
    /\ (pc = "tick" /\ pc' # "done") =>
            \E response \in MultiResponses \cup {PyNone} :
                \E b \in {MultiTickBodyOf(AllHooksOk(strategy),
                                           Unwrap(MinDt(feed_bars, idxs, 1, None)),
                                           response)} :
                    <<pc', error', cash', realized_pnl', positions', order_seq',
                      trades', equity_curve', calls'>>
                        = <<b.pc, b.error, b.cash, b.realized_pnl, b.positions,
                            b.order_seq, b.trades, b.equity_curve, b.calls>>
    /\ pc = "stop" =>
            /\ pc' = "done"
            /\ error' = None
            /\ result' = Some(build_result(pos, equity_curve, trades))
    /\ (pc = "tick" /\ pc' = "done") =>
            /\ error' = None
            /\ result' = Some(multi_result(cash, realized_pnl, equity_curve, trades))

\* C19: a missing or failing optional hook (on_start, on_order, on_trade,
\* on_stop) never fails the run and never changes its result: every step of
\* run() and run_multi() leaves the trades, the equity curve, the ledger
\* (cash, position, avg_cost, realized_pnl), the calls made and the error
\* state exactly as the same step does with every hook succeeding, and the
\* result returned is built from them.
C19_HooksNeverChangeTheRun == [][C19_SameAsWithGoodHooks]_vars

\* a run() whose four hooks all raise has gone to the end with two trades,
\* and a result is returned
C19_Witness ==
    /\ mode = "run"
    /\ strategy.hooks = HooksAll("raise")
    /\ pc = "done"
    /\ Len(trades) = 2
    /\ IsSome(result)
    /\ Unwrap(result).trades = trades

\* C20: in run_multi(), a limit order (Buy or Sell) for a symbol that has no
\* last price yet (reference price 0) does not fill: no trade carries the
\* id of a limit order whose symbol has had no bar up to now (last prices
\* are never removed, so it had none when the order was matched).
C20_LimitWithoutLastPriceDoesNotFill ==
    mode = "run_multi" =>
        \A k \in 1..Len(order_log) :
            (/\ order_log[k].o.otype = "Limit"
             /\ ~HasKey(last_price_map, order_log[k].o.symbol)) =>
                \A t \in 1..Len(trades) : trades[t].order_id # order_log[k].o.id

\* the action string of a parsed object: the string itself, or the dict's
\* "action" entry
ActionOf(obj) ==
    IF obj.kind = "str" THEN obj.s
    ELSE IF obj.kind = "dict" THEN UnwrapOr(obj.action, S_empty)
    ELSE S_empty

\* C21: the side of an order is decided by the first letter of the action
\* with case tolerated: an action (string, or dict "action" entry) starting
\* with B or b yields a Buy order, one starting with S or s a Sell order.
C21_SideFromFirstLetterAnyCase ==
    (fn_in.fn = "parse_action_fast" /\ IsSome(fn_out)) =>
        LET act == ActionOf(fn_in.action_obj)
            out == Unwrap(fn_out)
        IN  (act # S_empty /\ act[1] \in {"B", "b", "S", "s"}) =>
                /\ IsSome(out.order)
                /\ Unwrap(out.order).side =
                        (IF act[1] \in {"B", "b"} THEN "Buy" ELSE "Sell")

\* C22: every order that reaches the matcher has size > 0: an action whose
\* size is negative or zero is invalid input, so no order is created from
\* it and no trade of a size that is not positive is recorded.
C22_OrdersHavePositiveSize ==
    /\ \A k \in 1..Len(order_log) : RLt(R(0), order_log[k].o.size)
    /\ \A t \in 1..Len(trades) : RLt(R(0), trades[t].size)

\* the places <<tick, entry>> of the update slices up to tick n (counted
\* from 0) at which a bar of symbol sym was presented
BarsOfSymbol(sym, n) ==
    {p \in UNION {{<<k, j>> : j \in 1..Len(slices[k].slice)} : k \in 1..(n + 1)} :
        slices[p[1]].slice[p[2]][2].symbol = Some(sym)}

\* the reference price of symbol sym at tick n of run_multi(): the close of
\* the last bar of that symbol presented so far, 0 when there was none
PriceAt(sym, n) ==
    LET ps == BarsOfSymbol(sym, n) IN
    IF ps = {} THEN R(0)
    ELSE LET last == CHOOSE p \in ps :
                        \A q \in ps : q[1] < p[1] \/ (q[1] = p[1] /\ q[2] <= p[2])
         IN  slices[last[1]].slice[last[2]][2].close

\* the price the matcher returned for the order of log entry e: the limit
\* price of a Limit order, the reference price of a Market order
MatcherFillPrice(e) ==
    IF e.o.otype = "Limit" THEN Unwrap(e.o.limit_price)
    ELSE IF mode = "run" THEN bars_data[e.at + 1].close
    ELSE PriceAt(e.o.symbol, e.at)

LogEntryOfId(id) == order_log[CHOOSE k \in 1..Len(order_log) : order_log[k].o.id = id]

\* what trade tr adds to the cash: minus (price * size + commission) for a
\* Buy, plus (price * size - commission) for a Sell
CashEffect(tr) ==
    LET amount == RMul(tr.price, tr.size)
        commission == RMul(amount, cfg.commission_rate)
    IN  IF tr.side = "BUY" THEN RSub(R(0), RAdd(amount, commission))
        ELSE RSub(amount, commission)

RECURSIVE SumCashEffects(_)
SumCashEffects(k) ==
    IF k = 0 THEN R(0) ELSE RAdd(SumCashEffects(k - 1), CashEffect(trades[k]))

\* C23: for every fill the recorded trade price is exec_price =
\* fill_price * (1 + slippage_bps/10000) for a Buy and fill_price *
\* (1 - slippage_bps/10000) for a Sell, so a Buy never executes below and a
\* Sell never above the matcher's fill price; with commission = exec_price *
\* fill_size * commission_rate a Buy lowers the cash by exec_price *
\* fill_size + commission and a Sell raises it by exec_price * fill_size -
\* commission, so the cash is the initial cash plus these effects.
C23_SlippageAndCommissionOnEveryFill ==
    mode \in {"run", "run_multi"} =>
        /\ \A t \in 1..Len(trades) :
                LET tr == trades[t]
                    fill_price == MatcherFillPrice(LogEntryOfId(tr.order_id))
                    slip == RDiv(cfg.slippage_bps, R(10000))
                IN  /\ tr.side = "BUY" =>
                            /\ tr.price = RMul(fill_price, RAdd(R(1), slip))
                            /\ RLe(fill_price, tr.price)
                    /\ tr.side = "SELL" =>
                            /\ tr.price = RMul(fill_price, RSub(R(1), slip))
                            /\ RLe(tr.price, fill_price)
        /\ (IF mode = "run" THEN pos.cash ELSE cash)
                = RAdd(cfg.cash, SumCashEffects(Len(trades)))

\* on an engine with slippage and commission a Buy and then a Sell have
\* filled, the Sell below the price the matcher returned
C23_Witness ==
    /\ mode \in {"run", "run_multi"}
    /\ cfg.slippage_bps # R(0) /\ cfg.commission_rate # R(0)
    /\ Len(trades) = 2
    /\ trades[1].side = "BUY" /\ trades[2].side = "SELL"
    /\ RLt(trades[2].price, MatcherFillPrice(LogEntryOfId(trades[2].order_id)))

\* vectorized_sma has been applied to N prices with a window 1 <= W <= N
SmaApplied ==
    /\ fn_in.fn = "vectorized_sma"
    /\ IsSome(fn_out)
    /\ 1 <= fn_in.window
    /\ fn_in.window <= Len(fn_in.prices)

\* C24: vectorized_sma(prices, W) returns a sequence of the length of
\* prices in which, for 1 <= W <= N, exactly the indices below W - 1 are none
\* and every index from W - 1 on carries a value.
C24_SmaNoneExactlyBelowWindow ==
    SmaApplied =>
        LET out == Unwrap(fn_out) IN
        /\ Len(out) = Len(fn_in.prices)
        /\ \A n \in 0..(Len(out) - 1) : (out[n + 1] = None) <=> (n < fn_in.window - 1)

\* the arithmetic mean of prices[n-W+1..=n] (n counted from 0)
MeanOfLast(prices, W, n) == RDiv(SumSeq(SubSeq(prices, n - W + 2, n + 1)), R(W))

\* C25: every value vectorized_sma(prices, W) emits at index i equals the
\* arithmetic mean of the W prices prices[i-W+1..=i], for 1 <= W <= N.
C25_SmaValueIsMeanOfWindow ==
    SmaApplied =>
        LET out == Unwrap(fn_out) IN
        \A n \in 0..(Len(out) - 1) :
            (IsSome(out[n + 1]) /\ n >= fn_in.window - 1) =>
                Unwrap(out[n + 1]) = MeanOfLast(fn_in.prices, fn_in.window, n)

\* vectorized_rsi has been applied with a window W >= 1
RsiApplied ==
    /\ fn_in.fn = "vectorized_rsi"
    /\ IsSome(fn_out)
    /\ 1 <= fn_in.window

\* the prices up to index n (counted from 0) never fall
NoLossUpTo(prices, n) == \A k \in 1..n : RLe(prices[k], prices[k + 1])

\* the plain mean of the first W gains (up = TRUE) or losses of the prices
\* (at least W + 1 of them), from the price differences
FirstMean(prices, W, up) ==
    LET d(k) == RSub(prices[k + 1], prices[k])
        part(k) == IF up THEN (IF RLt(R(0), d(k)) THEN d(k) ELSE R(0))
                   ELSE (IF RLt(d(k), R(0)) THEN RSub(R(0), d(k)) ELSE R(0))
    IN  RDiv(SumSeq([k \in 1..W |-> part(k)]), R(W))

\* C26: vectorized_rsi(prices, W) returns a sequence of the length of
\* prices whose indices 0..W-1 are none and whose first value is at index
\* W, computed from the plain means of the first W gains and losses;
\* whenever the smoothed average loss is 0 (no price so far has fallen) the
\* value is exactly 100, and every emitted value lies in [0, 100].
C26_RsiShapeFirstValueAndRange ==
    RsiApplied =>
        LET out == Unwrap(fn_out)
            prices == fn_in.prices
            W == fn_in.window
        IN  /\ Len(out) = Len(prices)
            /\ \A n \in 0..(Len(out) - 1) :
                    /\ (out[n + 1] = None) <=> (n < W)
                    /\ IsSome(out[n + 1]) =>
                            /\ RLe(R(0), Unwrap(out[n + 1]))
                            /\ RLe(Unwrap(out[n + 1]), R(100))
                            /\ NoLossUpTo(prices, n) => Unwrap(out[n + 1]) = R(100)
            /\ Len(prices) > W =>
                    LET g == FirstMean(prices, W, TRUE)
                        l == FirstMean(prices, W, FALSE)
                    IN  out[W + 1] =
                            Some(IF l = R(0) THEN R(100)
                                 ELSE RDiv(RMul(R(100), g), RAdd(g, l)))

\* the spec's example: the prices 1, 2, ..., 15 with window 14 give fourteen
\* nones followed by 100
C26_Witness ==
    /\ fn_in.fn = "vectorized_rsi"
    /\ fn_in.prices = [k \in 1..15 |-> R(k)]
    /\ fn_in.window = 14
    /\ fn_out = Some([k \in 1..15 |-> IF k <= 14 THEN None ELSE Some(R(100))])

\* the running peak of the curve at point k: the largest equity so far
PeakAt(eqs, k) == CHOOSE x \in {eqs[j] : j \in 1..k} : \A j \in 1..k : RLe(eqs[j], x)

\* point k of the curve lies strictly below the running peak
BelowPeak(eqs, k) == RLt(eqs[k], PeakAt(eqs, k))

\* the lengths of the runs of consecutive points below the peak
RunsBelowPeak(eqs) ==
    {b - a + 1 : a, b \in 1..Len(eqs)} \cap
    {n \in 1..Len(eqs) :
        \E a \in 1..(Len(eqs) - n + 1) : \A k \in a..(a + n - 1) : BelowPeak(eqs, k)}

\* C27: the drawdown duration counter is incremented only on points whose
\* equity is strictly below the running peak and reset on a new peak, so
\* max_dd_duration is the length of the longest run of consecutive points
\* below the peak; a curve that never falls below its running peak has
\* max_dd_duration = 0 and max_drawdown = 0.
C27_DurationCountsPointsBelowPeak ==
    (fn_in.fn = "compute_enhanced_stats" /\ IsSome(fn_out)) =>
        LET eqs == fn_in.equity_curve
            out == Unwrap(fn_out)
            runs == RunsBelowPeak(eqs)
        IN  /\ out.max_dd_duration =
                    (IF runs = {} THEN 0
                     ELSE CHOOSE n \in runs : \A m \in runs : m <= n)
            /\ (\A k \in 1..Len(eqs) : ~BelowPeak(eqs, k)) =>
                    /\ out.max_dd_duration = 0
                    /\ out.max_drawdown = R(0)

\* period_to_minutes has been applied; its Option<i64>
PeriodParsed == fn_in.fn = "period_to_minutes" /\ IsSome(fn_out)

\* the string is one or more digits and its value is positive
IsPositiveInteger(str) ==
    /\ Len(str) > 0
    /\ \A k \in 1..Len(str) : IsDigit(str[k])
    /\ DecimalVal(str) > 0

\* C28: period_to_minutes takes a single trailing uppercase M as months
\* and a trailing lowercase m as minutes: for a positive integer n, "<n>M"
\* and "<n>mo" both give n * 43200 and "<n>m" gives n.
C28_UppercaseMIsMonths ==
    PeriodParsed =>
        LET period == fn_in.period
            out == Unwrap(fn_out)
        IN  /\ (EndsWith(period, <<"M">>) /\ IsPositiveInteger(DropLast(period, 1))) =>
                    out = Some(DecimalVal(DropLast(period, 1)) * 43200)
            /\ (EndsWith(period, <<"m", "o">>) /\ IsPositiveInteger(DropLast(period, 2))) =>
                    out = Some(DecimalVal(DropLast(period, 2)) * 43200)
            /\ (EndsWith(period, <<"m">>) /\ IsPositiveInteger(DropLast(period, 1))) =>
                    out = Some(DecimalVal(DropLast(period, 1)))

\* C29: period_to_minutes returns a value only when the prefix is a
\* positive integer and the suffix is one of m, h, d, w, mo, y; for a zero
\* or negative prefix, a non-numeric prefix or an unknown suffix it returns
\* none, so every returned minute count is >= 1.
C29_OnlyPositivePeriods ==
    PeriodParsed =>
        LET out == Unwrap(fn_out) IN
        IsSome(out) => Unwrap(out) >= 1

\* instant a is not later than instant b
NotLater(a, b) ==
    \/ a.date < b.date
    \/ a.date = b.date /\ a.hour * 3600 + a.minute * 60 + a.second
                             <= b.hour * 3600 + b.minute * 60 + b.second

\* C30: round_down_to_period(dt, P) for P >= 1 returns an instant on the
\* date of dt that is not later than dt, with seconds 0; for P >= 1440 it is
\* that date at 00:00:00, otherwise its minute of day is (M div P) * P where
\* M = hour * 60 + minute; flooring a floor returns it unchanged.
C30_FloorToPeriod ==
    (fn_in.fn = "round_down_to_period" /\ IsSome(fn_out) /\ fn_in.minutes >= 1) =>
        LET dt == fn_in.dt
            P == fn_in.minutes
            out == Unwrap(fn_out)
            M == dt.hour * 60 + dt.minute
        IN  /\ ~out.panic
            /\ out.dt.date = dt.date
            /\ NotLater(out.dt, dt)
            /\ out.dt.second = 0
            /\ out.dt.hour * 60 + out.dt.minute = (IF P >= 1440 THEN 0 ELSE (M \div P) * P)
            /\ round_down_to_period(out.dt, P) = out

\* 14:23:30 floored to 15 minutes is 14:15:00
C30_Witness ==
    /\ fn_in.fn = "round_down_to_period"
    /\ fn_in.dt = MkDateTime(1, 14, 23, 30)
    /\ fn_in.minutes = 15
    /\ fn_out = Some([panic |-> FALSE, dt |-> MkDateTime(1, 14, 15, 0)])

\* the resampler has been applied to bars whose datetimes all parse, with
\* a period of at least one minute
ResampledValid ==
    /\ fn_in.fn = "resample_klines_rust"
    /\ IsSome(fn_out)
    /\ \A k \in 1..Len(fn_in.bars) : IsSome(parse_datetime(fn_in.bars[k].datetime))
    /\ IsSome(period_to_minutes(fn_in.target_period))
    /\ Unwrap(period_to_minutes(fn_in.target_period)) >= 1

\* the bucket floor of input bar k
FloorOfBar(k) ==
    round_down_to_period(Unwrap(parse_datetime(fn_in.bars[k].datetime)),
                         Unwrap(period_to_minutes(fn_in.target_period))).dt

\* the input bars are in ascending order of datetime (repeats allowed)
InputAscending ==
    \A k \in 1..(Len(fn_in.bars) - 1) :
        NotLater(Unwrap(parse_datetime(fn_in.bars[k].datetime)),
                 Unwrap(parse_datetime(fn_in.bars[k + 1].datetime)))

\* the number of bars returned equals the number of distinct bucket floors
\* of the input
OneBarPerFloor ==
    /\ ~Unwrap(fn_out).panic
    /\ Unwrap(fn_out).err = None
    /\ Len(Unwrap(fn_out).bars) = Cardinality({FloorOfBar(k) : k \in 1..Len(fn_in.bars)})

\* C31: for an input bar list in ascending order with parseable datetimes
\* and a valid period, the number of bars resample_klines_rust returns
\* equals the number of distinct bucket floors occurring in the input.
C31_OneBarPerFloor == (ResampledValid /\ InputAscending) => OneBarPerFloor

\* C31 as stated, for any input bar list
C31_OneBarPerFloor_AnyOrder == ResampledValid => OneBarPerFloor

\* three ascending bars in two buckets have been resampled to two bars
C31_Witness ==
    /\ ResampledValid
    /\ InputAscending
    /\ Len(fn_in.bars) = 3
    /\ Len(Unwrap(fn_out).bars) = 2

\* the input positions at which a run of bars with equal floor starts
RunStarts == {k \in 1..Len(fn_in.bars) : k = 1 \/ FloorOfBar(k) # FloorOfBar(k - 1)}

\* the j-th run start, and the last position of the run starting at a
NthStart(j) == CHOOSE a \in RunStarts : Cardinality({b \in RunStarts : b <= a}) = j
RunEnd(a) ==
    CHOOSE b \in a..Len(fn_in.bars) :
        /\ \A k \in a..b : FloorOfBar(k) = FloorOfBar(a)
        /\ b = Len(fn_in.bars) \/ FloorOfBar(b + 1) # FloorOfBar(a)

\* low <= open, close <= high
WellShaped(b) == b.low <= b.open /\ b.low <= b.close /\ b.open <= b.high /\ b.close <= b.high

\* C32: every bar the resampler emits aggregates one maximal run of
\* consecutive input bars with the same bucket floor: open of the first,
\* greatest high, least low, close of the last, sum of the volumes, symbol
\* of the first, the floor as datetime; every input bar is in exactly one
\* run, so the total volume is conserved; and if every input bar has
\* low <= open, close <= high then so has every output bar.
C32_BarsAggregateMaximalRuns ==
    ResampledValid =>
        LET out == Unwrap(fn_out).bars
            bars == fn_in.bars
        IN  /\ Unwrap(fn_out).err = None /\ ~Unwrap(fn_out).panic
            /\ Len(out) = Cardinality(RunStarts)
            /\ \A j \in 1..Len(out) :
                    LET a == NthStart(j)
                        b == RunEnd(a)
                    IN  /\ out[j].datetime = FormatDatetime(FloorOfBar(a))
                        /\ out[j].open = bars[a].open
                        /\ out[j].close = bars[b].close
                        /\ out[j].symbol = bars[a].symbol
                        /\ \A k \in a..b : bars[k].high <= out[j].high
                        /\ \E k \in a..b : bars[k].high = out[j].high
                        /\ \A k \in a..b : bars[k].low >= out[j].low
                        /\ \E k \in a..b : bars[k].low = out[j].low
                        /\ out[j].volume = FoldSum([k \in 1..(b - a + 1) |->
                                                        bars[a + k - 1].volume])
            /\ FoldSum([k \in 1..Len(out) |-> out[k].volume])
                    = FoldSum([k \in 1..Len(bars) |-> bars[k].volume])
            /\ (\A k \in 1..Len(bars) : WellShaped(bars[k])) =>
                    \A j \in 1..Len(out) : WellShaped(out[j])

\* the spec's example: the 1m bars 00:00..00:05 with closes and volumes
\* 1..6 resampled to 5m give O=1 H=5 L=1 C=5 V=15 and O=6 H=6 L=6 C=6 V=6
C32_Witness ==
    /\ fn_in.fn = "resample_klines_rust"
    /\ fn_in.bars = ExampleBars
    /\ fn_in.target_period = <<"5", "m">>
    /\ fn_out = Some([err |-> None, panic |-> FALSE,
                      bars |-> <<KlineBar(FormatDatetime(MkDateTime(1, 0, 0, 0)),
                                          1, 5, 1, 5, 15, "A"),
                                 KlineBar(FormatDatetime(MkDateTime(1, 0, 5, 0)),
                                          6, 6, 6, 6, 6, "A")>>])

\* C33: resample_klines_rust fails fast: whenever the period string is
\* unparseable (for any input bar list, the empty one included) or a bar's
\* datetime is unparseable (the period being valid), it returns an error
\* and no output bars.
C33_FailsFastOnBadPeriodOrDatetime ==
    (fn_in.fn = "resample_klines_rust" /\ IsSome(fn_out)) =>
        LET minutes == period_to_minutes(fn_in.target_period)
            bad_period == ~IsSome(minutes)
            bad_datetime ==
                /\ IsSome(minutes) /\ Unwrap(minutes) >= 1
                /\ \E k \in 1..Len(fn_in.bars) :
                        ~IsSome(parse_datetime(fn_in.bars[k].datetime))
        IN  (bad_period \/ bad_datetime) =>
                /\ IsSome(Unwrap(fn_out).err)
                /\ Unwrap(fn_out).bars = <<>>

\* the rows the new bars make for the symbol, one per distinct datetime
NewRowsOf(bars, symbol) ==
    {Row(symbol, dt, "new") : dt \in {UnwrapOr(bars[k].datetime, "") : k \in 1..Len(bars)}}

\* C34: save_klines behaves as one transaction including the replace step:
\* if a step after the deletion fails (temp-table creation, batch insert,
\* final insert or commit) the period table holds exactly the rows it held
\* before the call; if it succeeds with replace = true the table holds for
\* the symbol exactly the distinct (symbol, datetime) rows of the new bars.
C34_SaveIsOneTransaction ==
    (fn_in.fn = "save_klines" /\ IsSome(fn_out)) =>
        LET table == Unwrap(fn_out).table IN
        /\ (pc = "error" /\ Unwrap(error) \in {"temp", "batch", "insert", "commit"}) =>
                table = fn_in.table
        /\ (pc = "done" /\ fn_in.replace) =>
                {r \in table : r.symbol = fn_in.symbol}
                    = NewRowsOf(fn_in.bars, fn_in.symbol)

\* the kernel was applied to a degenerate input
SmaDegenerate ==
    /\ fn_in.fn = "vectorized_sma"
    /\ Len(fn_in.prices) = 0 \/ fn_in.window = 0 \/ fn_in.window > Len(fn_in.prices)
RsiDegenerate ==
    /\ fn_in.fn = "vectorized_rsi"
    /\ Len(fn_in.prices) < 2 \/ fn_in.window = 0 \/ fn_in.window >= Len(fn_in.prices)
FactorInputDegenerate ==
    /\ fn_in.fn = "factor_backtest_fast"
    /\ \/ fn_in.quantiles < 2
       \/ fn_in.forward = 0
       \/ Len(fn_in.closes) <= fn_in.forward
       \/ Len(fn_in.factors) <= fn_in.forward

\* the result is the empty result of the factor analyzer, and no panic
IsEmptyFactorResult(res) ==
    /\ ~res.panic
    /\ Len(res.quantiles) = 0
    /\ Len(res.mean_returns) = 0
    /\ res.ic = None
    /\ res.monotonicity = R(0)
    /\ Len(res.q_bounds) = 0
    /\ DOMAIN res.factor_stats = {}

\* C35: the kernels never signal an error on degenerate inputs:
\* vectorized_sma with empty prices, W = 0 or W > N and vectorized_rsi with
\* N < 2, W = 0 or W >= N return N nones; factor_backtest_fast with Q < 2,
\* F = 0 or N <= F returns the empty result.
C35_DegenerateInputsGiveEmptyResults ==
    IsSome(fn_out) =>
        /\ (SmaDegenerate \/ RsiDegenerate) =>
               Unwrap(fn_out) = AllNone(Len(fn_in.prices))
        /\ FactorInputDegenerate => IsEmptyFactorResult(Unwrap(fn_out))

\* the factor analyzer has returned for one group and a series longer than
\* the forward period
C35_Witness ==
    /\ fn_in.fn = "factor_backtest_fast"
    /\ fn_in.quantiles = 1
    /\ fn_in.forward = 1
    /\ Len(fn_in.closes) = 2
    /\ Len(fn_in.factors) = 3
    /\ IsSome(fn_out)
    /\ IsEmptyFactorResult(Unwrap(fn_out))

\* the ledger of a run: the realized PnL, and the (position, avg_cost) the
\* fills of symbol act on (run() keeps one position for every symbol)
LedgerPnl == IF mode = "run" THEN pos.realized_pnl ELSE realized_pnl
LedgerEntry(state, map, symbol) ==
    IF mode = "run" THEN <<state.position, state.avg_cost>>
    ELSE MapGetOr(map, symbol, <<R(0), R(0)>>)

\* a step of a run in which exactly one trade, or none, is recorded
C36_FillStep ==
    (mode \in {"run", "run_multi"} /\ mode' = mode) =>
        /\ Len(trades') = Len(trades) => LedgerPnl' = LedgerPnl
        /\ Len(trades') = Len(trades) + 1 =>
              LET tr == trades'[Len(trades')]
                  symbol == order_log'[CHOOSE k \in 1..Len(order_log') :
                                          order_log'[k].o.id = tr.order_id].o.symbol
                  position == LedgerEntry(pos, positions, symbol)[1]
                  avg_cost == LedgerEntry(pos, positions, symbol)[2]
                  after == LedgerEntry(pos', positions', symbol)
              IN  /\ IF tr.side = "SELL" /\ RLt(R(0), position)
                     THEN LedgerPnl' = RAdd(LedgerPnl,
                                            RMul(RSub(tr.price, avg_cost),
                                                 RMin(tr.size, position)))
                     ELSE LedgerPnl' = LedgerPnl
                  /\ (tr.side = "SELL" /\ after[1] # R(0)) => after[2] = avg_cost

\* C36: realized_pnl changes only on a Sell fill executed while the
\* pre-trade position is > 0, and then by exactly (exec_price - avg_cost) *
\* min(fill_size, position); every Buy fill (one covering a short included)
\* and every Sell from a flat or short position leaves it unchanged; a Sell
\* that leaves a non-zero position leaves avg_cost unchanged.
C36_RealizedPnlOnlyOnLongSells == [][C36_FillStep]_vars

\* a Sell larger than the long position has filled: the PnL of the closed
\* part is booked and the position is short at the old average cost
C36_Witness ==
    /\ mode = "run"
    /\ Len(trades) = 2
    /\ trades[1].side = "BUY"
    /\ trades[2].side = "SELL"
    /\ RLt(pos.position, R(0))
    /\ pos.realized_pnl # R(0)
    /\ pos.avg_cost = trades[1].price

\* the symbol of the order a trade record belongs to
TradeSymbol(tr) == OrderOfId(tr.order_id).symbol

\* over the first k trades: the initial cash less the cash paid for Buys plus
\* the cash received for Sells, commission included; and the sizes bought
\* less the sizes sold in the trades of the given symbols
RECURSIVE LogCash(_)
LogCash(k) ==
    IF k = 0 THEN cfg.cash
    ELSE LET tr == trades[k]
             amount == RMul(tr.price, tr.size)
         IN  IF tr.side = "BUY"
             THEN RSub(LogCash(k - 1), RMul(amount, RAdd(R(1), cfg.commission_rate)))
             ELSE RAdd(LogCash(k - 1), RMul(amount, RSub(R(1), cfg.commission_rate)))
RECURSIVE LogPosition(_, _)
LogPosition(k, symbols) ==
    IF k = 0 THEN R(0)
    ELSE LET tr == trades[k] IN
         IF TradeSymbol(tr) \notin symbols THEN LogPosition(k - 1, symbols)
         ELSE IF tr.side = "BUY" THEN RAdd(LogPosition(k - 1, symbols), tr.size)
         ELSE RSub(LogPosition(k - 1, symbols), tr.size)

\* the symbols of the orders submitted so far
LogSymbols == {order_log[k].o.symbol : k \in 1..Len(order_log)}

C37_LedgerMatchesLog ==
    /\ mode = "run" =>
          /\ pos.cash = LogCash(Len(trades))
          /\ pos.position = LogPosition(Len(trades), LogSymbols)
    /\ mode = "run_multi" =>
          /\ cash = LogCash(Len(trades))
          /\ \A symbol \in LogSymbols \cup DOMAIN positions :
                MapGetOr(positions, symbol, <<R(0), R(0)>>)[1]
                    = LogPosition(Len(trades), {symbol})

C37_LogOnlyGrows ==
    (mode \in {"run", "run_multi"} /\ mode' = mode) =>
        /\ Len(trades') >= Len(trades)
        /\ SubSeq(trades', 1, Len(trades)) = trades

\* C37: at every point of a run the ledger agrees with the append-only
\* trade log: cash = initial_cash - sum over Buy trades of price * size *
\* (1 + commission_rate) + sum over Sell trades of price * size * (1 -
\* commission_rate), the position of a symbol is its Buy sizes less its Sell
\* sizes, and the trade log only grows.
C37_LedgerAgreesWithTradeLog == []C37_LedgerMatchesLog /\ [][C37_LogOnlyGrows]_vars

\* run_multi() has traded two symbols at a commission, one bought and one sold
C37_Witness ==
    /\ mode = "run_multi"
    /\ cfg.commission_rate # R(0)
    /\ Len(trades) = 2
    /\ \E a, b \in DOMAIN positions :
          /\ RLt(R(0), positions[a][1])
          /\ RLt(positions[b][1], R(0))

\* C38: the "equity" field of the result bundle returned by run() equals
\* the last value of the returned equity curve, that is final cash + final
\* position * close of the last bar, for every final position (flat, long
\* or short).
C38_ResultEquityIsLastCurveValue ==
    (mode = "run" /\ pc = "done" /\ IsSome(result)) =>
        LET res == Unwrap(result)
            curve == res.equity_curve
        IN  Len(curve) > 0 =>
              /\ res.equity = curve[Len(curve)][2]
              /\ res.equity = RAdd(res.cash,
                                   RMul(res.position, bars_data[n_bars].close))

\* C39: run_multi() on a single feed whose bars all carry the same symbol
\* and strictly ascending datetimes is equivalent to run() on that bar list
\* with a strategy returning the same actions: both produce the same order
\* ids, the same trade records, the same equity curve, the same final cash
\* and realized_pnl.
C39_SingleFeedMultiEqualsRun ==
    IsSome(fn_out) =>
        /\ PairInStep
        /\ pc = "done" =>
              LET a == Unwrap(result)
                  b == Unwrap(Unwrap(fn_out).result)
              IN  /\ a.trades = b.trades
                  /\ a.equity_curve = b.equity_curve
                  /\ a.cash = b.cash
                  /\ a.realized_pnl = b.realized_pnl

\* feed f has a current bar, and it carries no datetime
StuckAt(f) ==
    /\ idxs[f] < Len(feed_bars[f])
    /\ ~IsSome(feed_bars[f][idxs[f] + 1].datetime)

\* no feed has consumed a bar without datetime, and every tick time is the
\* datetime of each bar of its update slice
C40_NoBarWithoutDatetimeConsumed ==
    mode = "run_multi" =>
        /\ \A f \in 1..Len(feed_bars) : \A k \in 1..idxs[f] :
                IsSome(feed_bars[f][k].datetime)
        /\ \A n \in 1..Len(slices) : \A m \in 1..Len(slices[n].slice) :
                slices[n].slice[m][2].datetime = Some(slices[n].t)
        /\ \A f \in 1..Len(feed_bars) :
                Cardinality({<<n, m>> \in (1..Len(slices)) \X (1..MaxFeedLen) :
                                /\ m <= Len(slices[n].slice)
                                /\ slices[n].slice[m][1] = feed_ids[f]}) = idxs[f]

\* when every remaining current bar lacks a datetime the next step ends the
\* run with a result and no error
C40_EndsWhenAllStuck ==
    (/\ mode = "run_multi"
     /\ pc = "tick"
     /\ \A f \in 1..Len(feed_bars) : idxs[f] < Len(feed_bars[f]) => StuckAt(f)) =>
        /\ pc' = "done"
        /\ error' = None
        /\ IsSome(result')
        /\ idxs' = idxs
        /\ slices' = slices

====
